---- MODULE Spec2Model ----
(***************************************************************************)
(* A model of rx-hotkeys (src/src/core/hotkeys.ts): the Hotkeys manager's  *)
(* context resolver (context stack + override), its registry of shortcuts, *)
(* and the per-subscription pipelines that turn key events into emissions  *)
(* (context gate -> matcher -> priority filter).                           *)
(*                                                                         *)
(* Specifications, each over the same variables:                           *)
(*   SpecCtx     the context resolver alone, with a history of API calls;   *)
(*   Spec        registration, subscription, event delivery one subscriber  *)
(*               at a time, handlers that change the context re-entrantly;  *)
(*   SpecSeq     one token list as a sequence without and with a timeout;   *)
(*   SpecKeys    one combination rule against any key event;               *)
(*   SpecReg     the registry: add, overwrite, remove, destroy;            *)
(*   SpecErr     handlers that throw;                                      *)
(*   SpecCmp     the key matcher;                                          *)
(*   SpecGate    sequence rules while the context changes;                 *)
(*   SpecPrio    a global rule and the rules that take priority over it;   *)
(*   SpecScoped  the React provider's context stack.                       *)
(***************************************************************************)
EXTENDS Integers, Sequences, FiniteSets, TLC

\* ------------------------------------------------------------------ values

\* JavaScript null (also stands for an absent context) and undefined.
NULL == "<null>"
UNDEFINED == "<undefined>"

\* A mutant: the sentinel is null.
NO_OVERRIDE_conflated == NULL
\* Hotkeys.NO_OVERRIDE: the sentinel Symbol, different from every context value.
NO_OVERRIDE == "<Symbol(No Hotkey Override)>"

\* The context names the callers use (string | null).
ContextNames == {"parent", "child", "override"}
Contexts == ContextNames \cup {NULL}

\* Bounds of SpecCtx: the depth of the context stack and the number of
\* setContext calls (each returns one restore closure).
MaxStack == 3
MaxRestore == 2
MaxObservers == 1

\* The initial contexts tried: the default (null) and a named one.
InitialContexts == {NULL, "parent"}

VARIABLES
    initialContext,   \* the constructor's argument
    contextStack,     \* contextStack$.getValue()
    overrideContext,  \* overrideContext$.getValue()
    restoreFns,       \* the restore closures returned so far: the contextName each captured
    overrideSetBy,    \* history: which setContext call installed the pending override (0: none)
    lastCall,         \* history: the latest API call, what it was called on and what it returned
    prevCall,         \* history: the call before lastCall
    regs,             \* every registration made so far, in order: its config (its index names its terminator$)
    activeShortcuts,  \* the registry: id -> the registration it holds (0: none)
    terminated,       \* the registrations whose terminator$ has emitted and completed
    subs,             \* the live subscriptions to rule streams, in the order they subscribed to the shared source
    now,              \* performance.now()
    ev,               \* the key event being delivered (NoEvent between events)
    slot,             \* delivery position: the subscription and trigger stream the event reaches next
    emitted,          \* history: the emissions made for ev so far
    handlerActive,    \* the subscriber that received the latest emission is running its handler
    reentered,        \* history: a handler changed the context while ev was being delivered
    observers,        \* the subscriptions to onContextChange$, in subscription order
    log,              \* history: the events delivered so far and who emitted on each
    failed,           \* history: the handlers that threw: the subscription, and the event (its number)
    completions,      \* history: the complete notifications subscribers received, each by its registration
    overwritten,      \* history: the registrations a later registration of their id replaced
    subscribed,       \* history: the subscribe calls made on rule streams, each by its registration
    stackStopped,     \* contextStack$ has completed (destroy)
    destroyedRules,   \* history: the registrations destroy() found in the registry
    listeners,        \* per event type, the listeners attached to document (added minus removed)
    providerContextStack,  \* HotkeysProvider's state contextStack (<<>>: no provider)
    scopedContext     \* per component using useScopedHotkeysContext: its argument once its effect ran

histVars == <<lastCall, prevCall>>
regVars == <<regs, activeShortcuts, terminated, completions, overwritten, subscribed,
            stackStopped, destroyedRules, listeners>>
reactVars == <<providerContextStack, scopedContext>>
evVars == <<ev, slot, emitted, handlerActive, reentered, log, failed, reactVars>>
vars == <<initialContext, contextStack, overrideContext, restoreFns, overrideSetBy,
          histVars, regVars, subs, now, evVars, observers>>

\* --------------------------------------------------- the React integration

\* The component instances that call useScopedHotkeysContext.
Components == {1, 2, 3}

\* A component that is not mounted.
UNMOUNTED == "<unmounted>"

\* The manager is used without the React provider.
NoProvider ==
    /\ providerContextStack = <<>>
    /\ scopedContext = [c \in Components |-> UNMOUNTED]

\* ------------------------------------------------------- context resolver

Last(s) == s[Len(s)]
Front(s) == SubSeq(s, 1, Len(s) - 1)

\* A mutant: null is taken for "no override".
ResolveNullAsUnset(overrideCtx, stackCtx) ==
    IF overrideCtx # NO_OVERRIDE /\ overrideCtx # NULL THEN overrideCtx ELSE stackCtx

\* _resolveActiveContext
ResolveActiveContext(overrideCtx, stackCtx) ==
    IF overrideCtx # NO_OVERRIDE THEN overrideCtx ELSE stackCtx

\* stack.length > 0 ? stack[stack.length - 1] : null
StackCtx(stack) == IF Len(stack) > 0 THEN Last(stack) ELSE NULL

\* getActiveContext()
GetActiveContext == ResolveActiveContext(overrideContext, StackCtx(contextStack))

\* A mutant: a change of the override does not reach the subscriptions.
NotifiedStackOnly(overrideCtx, stack) ==
    [i \in DOMAIN subs |->
        [subs[i] EXCEPT !.activeCtx = ResolveActiveContext(overrideContext, StackCtx(stack))]]

\* activeContext$ (combineLatest of the two subjects, map, distinctUntilChanged) as
\* withLatestFrom keeps it in each subscription: a next() on either subject is
\* delivered synchronously to every subscription, which then holds the new
\* resolved context.
Notified(overrideCtx, stack) ==
    [i \in DOMAIN subs |->
        [subs[i] EXCEPT !.activeCtx = ResolveActiveContext(overrideCtx, StackCtx(stack))]]

\* A mutant: no distinctUntilChanged.
ObserverNextNoDistinct(o, value) == [last |-> value, got |-> Append(o.got, value)]

\* distinctUntilChanged() of one subscription to onContextChange$: `last` is the
\* value it compares with, `got` (history) the values the subscriber's handler
\* received during the latest API call.
ObserverNext(o, value) ==
    IF value = o.last THEN o ELSE [last |-> value, got |-> Append(o.got, value)]

\* onContextChange$.subscribe(handler): combineLatest has both values at once, the
\* first value always passes distinctUntilChanged
Observer == [last |-> GetActiveContext, got |-> <<GetActiveContext>>]

\* An API call that makes no next() on either subject.
Silent == [i \in DOMAIN observers |-> [observers[i] EXCEPT !.got = <<>>]]

\* A next() on either subject: combineLatest emits the pair to map and
\* distinctUntilChanged of every subscription to onContextChange$.
Announced(overrideCtx, stack) ==
    [i \in DOMAIN observers |->
        ObserverNext(Silent[i], ResolveActiveContext(overrideCtx, StackCtx(stack)))]

\* A mutant: the new context goes to the bottom of the stack.
EnterContextUnshift(contextName) ==
    /\ contextStack' = <<contextName>> \o contextStack
    /\ subs' = Notified(overrideContext, contextStack')
    /\ observers' = Announced(overrideContext, contextStack')
    /\ UNCHANGED <<initialContext, overrideContext, restoreFns, overrideSetBy>>

\* A mutant: entering a context also drops the pending override.
EnterContextDropsOverride(contextName) ==
    /\ contextStack' = Append(contextStack, contextName)
    /\ overrideContext' = NO_OVERRIDE
    /\ subs' = Notified(overrideContext', contextStack')
    /\ observers' = Announced(overrideContext', contextStack')
    /\ UNCHANGED <<initialContext, restoreFns, overrideSetBy>>

\* enterContext(contextName)
EnterContext(contextName) ==
    /\ contextStack' = Append(contextStack, contextName)
    /\ subs' = Notified(overrideContext, contextStack')
    /\ observers' = Announced(overrideContext, contextStack')
    /\ UNCHANGED <<initialContext, overrideContext, restoreFns, overrideSetBy>>

\* A mutant: the guard lets the base element be popped.
LeaveContextPopsBase ==
    /\ IF Len(contextStack) <= 0
         THEN UNCHANGED <<contextStack, subs>> /\ observers' = Silent
         ELSE /\ contextStack' = Front(contextStack)
              /\ subs' = Notified(overrideContext, contextStack')
              /\ observers' = Announced(overrideContext, contextStack')
    /\ observers' = Announced(overrideContext, contextStack')
    /\ UNCHANGED <<initialContext, overrideContext, restoreFns, overrideSetBy>>

\* leaveContext(): the state change
LeaveContext ==
    /\ IF Len(contextStack) <= 1
         THEN UNCHANGED <<contextStack, subs>> /\ observers' = Silent
         ELSE /\ contextStack' = Front(contextStack)
              /\ subs' = Notified(overrideContext, contextStack')
              /\ observers' = Announced(overrideContext, contextStack')
    /\ observers' = Announced(overrideContext, contextStack')
    /\ UNCHANGED <<initialContext, overrideContext, restoreFns, overrideSetBy>>

\* leaveContext(): the value returned, from the stack it was called on
LeaveContextResult(stack) == IF Len(stack) <= 1 THEN UNDEFINED ELSE Last(stack)

\* setContext(contextName): installs the override and returns a new restore closure
SetContext(contextName) ==
    /\ overrideContext' = contextName
    /\ restoreFns' = Append(restoreFns, contextName)
    /\ overrideSetBy' = Len(restoreFns) + 1
    /\ subs' = Notified(overrideContext', contextStack)
    /\ observers' = Announced(overrideContext', contextStack)
    /\ UNCHANGED <<initialContext, contextStack>>

\* A mutant: restore clears whatever override is pending.
RestoreUnconditional(fn) ==
    /\ overrideContext' = NO_OVERRIDE
    /\ overrideSetBy' = 0
    /\ subs' = Notified(overrideContext', contextStack)
    /\ observers' = Announced(overrideContext', contextStack)
    /\ UNCHANGED <<initialContext, contextStack, restoreFns>>

\* the restore closure number fn, called
Restore(fn) ==
    /\ IF overrideContext = restoreFns[fn]
         THEN /\ overrideContext' = NO_OVERRIDE
              /\ overrideSetBy' = 0
              /\ subs' = Notified(overrideContext', contextStack)
              /\ observers' = Announced(overrideContext', contextStack)
         ELSE UNCHANGED <<overrideContext, overrideSetBy, subs>> /\ observers' = Silent
    /\ UNCHANGED <<initialContext, contextStack, restoreFns>>

\* ------------------------------------------------------------ key events

\* A KeyboardEvent as the library reads it; preventedBy (history) holds the
\* registrations whose stream called preventDefault() on it: defaultPrevented is
\* true when it is not empty.
KeyEvent(type, key, ctrlKey) ==
    [type |-> type, key |-> key, ctrlKey |-> ctrlKey,
     target |-> "document", altKey |-> FALSE, shiftKey |-> FALSE, metaKey |-> FALSE,
     preventedBy |-> {}]

NoEvent == KeyEvent("none", "", FALSE)

\* A KeyboardEvent with all four modifier flags given.
KeyEventWith(type, key, ctrlKey, altKey, shiftKey, metaKey) ==
    [type |-> type, key |-> key, ctrlKey |-> ctrlKey,
     target |-> "document", altKey |-> altKey, shiftKey |-> shiftKey, metaKey |-> metaKey,
     preventedBy |-> {}]

\* String.prototype.toLowerCase on the keys of the model
ToLowerCase(k) ==
    CASE k = "G" -> "g"
      [] k = "I" -> "i"
      [] k = "A" -> "a"
      [] k = "B" -> "b"
      [] k = "S" -> "s"
      [] k = "Escape" -> "escape"
      [] k = "Enter" -> "enter"
      [] OTHER -> k

\* A mutant: the comparison ignores case whatever the lengths.
CompareKeyAlwaysFolds(eventKey, configuredKey) ==
    ToLowerCase(eventKey) = ToLowerCase(configuredKey)

\* compareKey
CompareKey(eventKey, configuredKey) ==
    IF Len(configuredKey) = 1 /\ Len(eventKey) = 1
    THEN ToLowerCase(eventKey) = ToLowerCase(configuredKey)
    ELSE eventKey = configuredKey

\* --------------------------------------------------------------- triggers

\* A modifier requirement of a trigger object: true, false, or not given.
YES == "true"
NO == "false"

\* KeyCombinationTrigger, object form
Trigger(key, ctrlKey) ==
    [key |-> key, ctrlKey |-> ctrlKey, altKey |-> UNDEFINED,
     shiftKey |-> UNDEFINED, metaKey |-> UNDEFINED]

\* KeyCombinationTrigger, object form with every modifier field
TriggerWith(key, ctrlKey, altKey, shiftKey, metaKey) ==
    [key |-> key, ctrlKey |-> ctrlKey, altKey |-> altKey,
     shiftKey |-> shiftKey, metaKey |-> metaKey]

\* KeyCombinationTrigger, shorthand form: the trigger is a string
BareKey(key) == [shorthand |-> key]

IsString(keyInput) == "shorthand" \in DOMAIN keyInput

\* normalizeKey on the keys of the model: trimmed and lower-cased, then the
\* standard key of that spelling, or the upper-cased single character
NormalizeKey(key) ==
    CASE key \in {"", " "} -> NULL
      [] key \in {"s", "S", " s"} -> "S"
      [] key \in {"a", "A"} -> "A"
      [] key \in {"escape", "Escape"} -> "Escape"
      [] OTHER -> NULL

ParseFailed ==
    [ok |-> FALSE, configuredMainKey |-> "", ctrlKeyConfig |-> UNDEFINED,
     altKeyConfig |-> UNDEFINED, shiftKeyConfig |-> UNDEFINED,
     metaKeyConfig |-> UNDEFINED]

\* A mutant: a trigger without modifiers leaves every modifier unchecked.
ParseKeyTriggerAnyModifiers(keyInput) ==
    IF IsString(keyInput)
    THEN IF NormalizeKey(keyInput.shorthand) = NULL THEN ParseFailed
         ELSE [ok |-> TRUE, configuredMainKey |-> NormalizeKey(keyInput.shorthand),
               ctrlKeyConfig |-> UNDEFINED, altKeyConfig |-> UNDEFINED,
               shiftKeyConfig |-> UNDEFINED, metaKeyConfig |-> UNDEFINED]
    ELSE IF keyInput.key \in {"", UNDEFINED, NULL} THEN ParseFailed
    ELSE [ok |-> TRUE, configuredMainKey |-> keyInput.key,
          ctrlKeyConfig |-> keyInput.ctrlKey, altKeyConfig |-> keyInput.altKey,
          shiftKeyConfig |-> keyInput.shiftKey, metaKeyConfig |-> keyInput.metaKey]

\* _parseKeyTrigger
ParseKeyTrigger(keyInput) ==
    IF IsString(keyInput)
    THEN IF NormalizeKey(keyInput.shorthand) = NULL THEN ParseFailed
         ELSE [ok |-> TRUE, configuredMainKey |-> NormalizeKey(keyInput.shorthand),
               ctrlKeyConfig |-> NO, altKeyConfig |-> NO, shiftKeyConfig |-> NO,
               metaKeyConfig |-> NO]
    ELSE IF keyInput.key \in {"", UNDEFINED, NULL} THEN ParseFailed
    ELSE IF ~(keyInput.ctrlKey = YES \/ keyInput.altKey = YES
                \/ keyInput.shiftKey = YES \/ keyInput.metaKey = YES)
    THEN [ok |-> TRUE, configuredMainKey |-> keyInput.key, ctrlKeyConfig |-> NO,
          altKeyConfig |-> NO, shiftKeyConfig |-> NO, metaKeyConfig |-> NO]
    ELSE [ok |-> TRUE, configuredMainKey |-> keyInput.key,
          ctrlKeyConfig |-> keyInput.ctrlKey, altKeyConfig |-> keyInput.altKey,
          shiftKeyConfig |-> keyInput.shiftKey, metaKeyConfig |-> keyInput.metaKey]

\* (config === undefined) ? true : (event flag === config)
ModifierMatch(config, flag) ==
    IF config = UNDEFINED THEN TRUE ELSE flag = (config = YES)

\* the modifier filter and the key filter of one trigger stream
TriggerMatches(parsed, event) ==
    /\ ModifierMatch(parsed.ctrlKeyConfig, event.ctrlKey)
    /\ ModifierMatch(parsed.altKeyConfig, event.altKey)
    /\ ModifierMatch(parsed.shiftKeyConfig, event.shiftKey)
    /\ ModifierMatch(parsed.metaKeyConfig, event.metaKey)
    /\ CompareKey(event.key, parsed.configuredMainKey)

\* _shortcutMatchesEvent
ShortcutMatchesEvent(shortcutConfig, event) ==
    \E k \in DOMAIN shortcutConfig.keys :
        LET parsed == ParseKeyTrigger(shortcutConfig.keys[k]) IN
        /\ parsed.ok
        /\ CompareKey(event.key, parsed.configuredMainKey)
        /\ ModifierMatch(parsed.ctrlKeyConfig, event.ctrlKey)
        /\ ModifierMatch(parsed.altKeyConfig, event.altKey)
        /\ ModifierMatch(parsed.shiftKeyConfig, event.shiftKey)
        /\ ModifierMatch(parsed.metaKeyConfig, event.metaKey)

\* _areSequencesIdentical
AreSequencesIdentical(seq1, seq2) ==
    /\ Len(seq1) = Len(seq2)
    /\ \A i \in 1..Len(seq1) : seq1[i] = seq2[i]

\* ------------------------------------------------------------ the registry

\* KeyCombinationConfig / KeySequenceConfig (type tells which: "keys" in config
\* or "sequence" in config); sequenceTimeoutMs 0 stands for none.
CombinationConfig(id, keys, context, strict, event) ==
    [type |-> "combination", event |-> event, keys |-> keys, id |-> id,
     context |-> context, strict |-> strict, sequence |-> <<>>, sequenceTimeoutMs |-> 0]

SequenceConfig(id, sequence, sequenceTimeoutMs, context, strict, event) ==
    [type |-> "sequence", event |-> event, keys |-> <<>>, id |-> id,
     context |-> context, strict |-> strict, sequence |-> sequence,
     sequenceTimeoutMs |-> sequenceTimeoutMs]

Ids == {"global", "scoped", "untimed", "timed"}

\* config.preventDefault, an optional field (preventDefault = false)
PreventDefault(config) ==
    IF "preventDefault" \in DOMAIN config THEN config.preventDefault ELSE FALSE

\* a configuration with preventDefault: true
Preventing(config) == config @@ [preventDefault |-> TRUE]

\* A mutant: the priority filters see every rule ever registered.
ActiveConfigsEverRegistered == {regs[g] : g \in DOMAIN regs}

\* The registry's entries, as the priority filters iterate over them.
ActiveConfigs == {regs[activeShortcuts[id]] : id \in {i \in Ids : activeShortcuts[i] # 0}}

\* A mutant: the strict flag is not looked at.
FilterByContextIgnoresStrict(context, strict, activeCtx) ==
    IF context = NULL THEN TRUE ELSE context = activeCtx

\* filterByContext: the filter's predicate
FilterByContext(context, strict, activeCtx) ==
    IF context = NULL
    THEN (IF strict THEN activeCtx = NULL ELSE TRUE)
    ELSE context = activeCtx

\* A mutant: the global rule is never suppressed.
CombinationPriorityOff(config, event, activeCtx) == TRUE

\* addCombination: the priority filter's predicate
CombinationPriority(config, event, activeCtx) ==
    IF config.context # NULL \/ config.strict THEN TRUE
    ELSE IF activeCtx = NULL THEN TRUE
    ELSE ~\E other \in ActiveConfigs :
            /\ other.id # config.id
            /\ other.type = "combination"
            /\ other.context = activeCtx
            /\ ShortcutMatchesEvent(other, event)

\* A mutant: any sequence rule of the active context suppresses the global one.
SequencePriorityAnyTokens(config, activeCtx) ==
    IF config.context # NULL \/ config.strict THEN TRUE
    ELSE IF activeCtx = NULL THEN TRUE
    ELSE ~\E other \in ActiveConfigs :
            /\ other.id # config.id
            /\ other.type = "sequence"
            /\ other.context = activeCtx

\* addSequence: the priority filter's predicate
SequencePriority(config, activeCtx) ==
    IF config.context # NULL \/ config.strict THEN TRUE
    ELSE IF activeCtx = NULL THEN TRUE
    ELSE ~\E other \in ActiveConfigs :
            /\ other.id # config.id
            /\ other.type = "sequence"
            /\ other.context = activeCtx
            /\ AreSequencesIdentical(config.sequence, other.sequence)

\* ------------------------------------------------------ sequence matching

\* SequenceScanState
ScanState(matchedEvents, lastEventTime, emitState) ==
    [matchedEvents |-> matchedEvents, lastEventTime |-> lastEventTime,
     emitState |-> emitState]

ScanSeed == ScanState(<<>>, 0, "Ignore")

\* A mutant: the reducer never checks the elapsed time.
SequenceScanNoTimeout(acc, event, configuredSequence, sequenceTimeoutMs, currentTime) ==
    LET sequenceLength == Len(configuredSequence)
        matchedEvents == IF acc.emitState = "Emit" THEN <<>> ELSE acc.matchedEvents
        restart ==
            IF sequenceLength > 0 /\ CompareKey(event.key, configuredSequence[1])
            THEN ScanState(<<event>>, currentTime, "InProgress")
            ELSE ScanState(<<>>, 0, "Ignore")
    IN  IF Len(matchedEvents) >= sequenceLength THEN restart
        ELSE IF CompareKey(event.key, configuredSequence[Len(matchedEvents) + 1])
        THEN ScanState(Append(matchedEvents, event), currentTime,
                       IF Len(matchedEvents) + 1 = sequenceLength
                       THEN "Emit" ELSE "InProgress")
        ELSE restart

\* A mutant: an event that matches neither the next nor the first token leaves
\* the prefix as it is.
SequenceScanKeepsPrefixOnMismatch(acc, event, configuredSequence, sequenceTimeoutMs, currentTime) ==
    LET sequenceLength == Len(configuredSequence)
        afterEmit == acc.emitState = "Emit"
        matched0 == IF afterEmit THEN <<>> ELSE acc.matchedEvents
        lastEventTime == IF afterEmit THEN 0 ELSE acc.lastEventTime
        matchedEvents ==
            IF Len(matched0) > 0 /\ currentTime - lastEventTime > sequenceTimeoutMs
            THEN <<>> ELSE matched0
    IN  IF CompareKey(event.key, configuredSequence[Len(matchedEvents) + 1])
        THEN ScanState(Append(matchedEvents, event), currentTime,
                       IF Len(matchedEvents) + 1 = sequenceLength
                       THEN "Emit" ELSE "InProgress")
        ELSE IF CompareKey(event.key, configuredSequence[1])
        THEN ScanState(<<event>>, currentTime, "InProgress")
        ELSE ScanState(matchedEvents, lastEventTime, "Ignore")

\* A mutant: an elapsed time equal to the timeout resets the prefix too.
SequenceScanTimeoutInclusive(acc, event, configuredSequence, sequenceTimeoutMs, currentTime) ==
    LET sequenceLength == Len(configuredSequence)
        afterEmit == acc.emitState = "Emit"
        matched0 == IF afterEmit THEN <<>> ELSE acc.matchedEvents
        lastEventTime == IF afterEmit THEN 0 ELSE acc.lastEventTime
        matchedEvents ==
            IF Len(matched0) > 0 /\ currentTime - lastEventTime >= sequenceTimeoutMs
            THEN <<>> ELSE matched0
        restart ==
            IF sequenceLength > 0 /\ CompareKey(event.key, configuredSequence[1])
            THEN ScanState(<<event>>, currentTime, "InProgress")
            ELSE ScanState(<<>>, 0, "Ignore")
    IN  IF Len(matchedEvents) >= sequenceLength THEN restart
        ELSE IF CompareKey(event.key, configuredSequence[Len(matchedEvents) + 1])
        THEN ScanState(Append(matchedEvents, event), currentTime,
                       IF Len(matchedEvents) + 1 = sequenceLength
                       THEN "Emit" ELSE "InProgress")
        ELSE restart

\* A mutant: the event that finds the timeout exceeded is dropped with the prefix.
SequenceScanTimeoutDropsEvent(acc, event, configuredSequence, sequenceTimeoutMs, currentTime) ==
    IF /\ acc.emitState # "Emit"
       /\ Len(acc.matchedEvents) > 0
       /\ currentTime - acc.lastEventTime > sequenceTimeoutMs
    THEN ScanState(<<>>, 0, "Ignore")
    ELSE SequenceScanNoTimeout(acc, event, configuredSequence, sequenceTimeoutMs, currentTime)

\* addSequence: the reducer of scan (the timeout path)
SequenceScan(acc, event, configuredSequence, sequenceTimeoutMs, currentTime) ==
    LET sequenceLength == Len(configuredSequence)
        afterEmit == acc.emitState = "Emit"
        matched0 == IF afterEmit THEN <<>> ELSE acc.matchedEvents
        lastEventTime == IF afterEmit THEN 0 ELSE acc.lastEventTime
        matchedEvents ==
            IF Len(matched0) > 0 /\ currentTime - lastEventTime > sequenceTimeoutMs
            THEN <<>> ELSE matched0
        nextExpectedKeyIndex == Len(matchedEvents)
        restart ==
            IF sequenceLength > 0 /\ CompareKey(event.key, configuredSequence[1])
            THEN ScanState(<<event>>, currentTime, "InProgress")
            ELSE ScanState(<<>>, 0, "Ignore")
    IN  IF nextExpectedKeyIndex >= sequenceLength THEN restart
        ELSE IF CompareKey(event.key, configuredSequence[nextExpectedKeyIndex + 1])
        THEN ScanState(Append(matchedEvents, event), currentTime,
                       IF Len(matchedEvents) + 1 = sequenceLength
                       THEN "Emit" ELSE "InProgress")
        ELSE restart

\* A mutant: bufferCount(sequenceLength), windows that do not overlap.
BufferCountTumbling(buffer, event, sequenceLength) ==
    LET all == Append(buffer, event) IN
    IF Len(all) < sequenceLength THEN all ELSE <<>>

\* bufferCount(sequenceLength, 1): the events buffered after `event` came in, the
\* newest sequenceLength - 1 of them being kept for the windows still open
BufferCount(buffer, event, sequenceLength) ==
    LET all == Append(buffer, event) IN
    IF Len(all) < sequenceLength THEN all ELSE SubSeq(all, Len(all) - sequenceLength + 2, Len(all))

\* addSequence: the filter after bufferCount, on the window that `event` closes
BufferMatches(buffer, event, configuredSequence) ==
    LET events == Append(buffer, event) IN
    /\ Len(events) = Len(configuredSequence)
    /\ \A index \in 1..Len(events) : CompareKey(events[index].key, configuredSequence[index])

\* ---------------------------------------------------------- subscriptions

\* One subscription to the stream a registration returned: the registration, the
\* resolved context withLatestFrom holds, the accumulator of scan, the events
\* bufferCount holds, and whether takeUntil is armed (its notifier had not yet
\* completed when the subscription was made).
Subscription(gen) ==
    [activeCtx |-> GetActiveContext, buffer |-> <<>>, gen |-> gen, scan |-> ScanSeed,
     armed |-> gen \notin terminated, hasCtx |-> ~stackStopped]

ConfigOf(i) == regs[subs[i].gen]

\* merge(...observables): one stream per trigger; a sequence has one stream
Streams(i) == IF ConfigOf(i).type = "combination" THEN Len(ConfigOf(i).keys) ELSE 1

\* _getEventStream: the shared source a subscription listens on
ListensTo(i, event) ==
    ConfigOf(i).event = event.type /\ event.target = "document"

Done == [sub |-> 0, trig |-> 0]

\* The streams subscribed to the source of `event`, in subscription order, that
\* come after position <<i, k>>; the next one to receive the event, or Done.
SlotsAfter(i, k, event) ==
    {s \in [sub : DOMAIN subs, trig : 1..3] :
        /\ s.trig <= Streams(s.sub)
        /\ ListensTo(s.sub, event)
        /\ (s.sub > i \/ (s.sub = i /\ s.trig > k))}

NextSlot(i, k, event) ==
    LET after == SlotsAfter(i, k, event) IN
    IF after = {} THEN Done
    ELSE CHOOSE s \in after :
            \A t \in after : s.sub < t.sub \/ (s.sub = t.sub /\ s.trig <= t.trig)

\* The (target, event type) pairs: the target is document
EventTypes == {"keydown", "keyup"}

\* share(): the subscriptions a shared source of _getEventStream has among ss
RefCount(type, ss) == Cardinality({i \in DOMAIN ss : regs[ss[i].gen].event = type})

\* A mutant: no share(), every subscription attaches its own listener.
ShareEachSubscriberConnects(attached, before, after) == attached + after - before

\* fromEvent(target, eventType).pipe(share()): the listener is attached when the
\* first subscription arrives and removed when the last one has left
Share(attached, before, after) ==
    IF before = 0 /\ after > 0 THEN attached + 1
    ELSE IF before > 0 /\ after = 0 THEN attached - 1
    ELSE attached

\* the listeners after the subscriptions changed from subs to ss
Attached(ss) ==
    [type \in EventTypes |-> Share(listeners[type], RefCount(type, subs), RefCount(type, ss))]

\* terminator$.next(); terminator$.complete(): takeUntil ends the armed
\* subscriptions of the registration, which leave the shared source
Terminate(gens) ==
    /\ terminated' = terminated \cup gens
    /\ subs' = SelectSeq(subs, LAMBDA s : ~(s.gen \in gens /\ s.armed))
    /\ listeners' = Attached(SelectSeq(subs, LAMBDA s : ~(s.gen \in gens /\ s.armed)))
    /\ completions' =
            LET ended == SelectSeq(subs, LAMBDA s : s.gen \in gens /\ s.armed)
            IN  completions \o [k \in DOMAIN ended |-> ended[k].gen]

\* _registerShortcut
RegisterShortcut(config) ==
    LET existingShortcut == activeShortcuts[config.id] IN
    /\ IF existingShortcut # 0
         THEN Terminate({existingShortcut})
         ELSE UNCHANGED <<terminated, subs, completions, listeners>>
    /\ overwritten' = IF existingShortcut # 0 THEN overwritten \cup {existingShortcut}
                                               ELSE overwritten
    /\ regs' = Append(regs, config)
    /\ UNCHANGED <<subscribed, stackStopped, destroyedRules>>
    /\ activeShortcuts' = [activeShortcuts EXCEPT ![config.id] = Len(regs) + 1]

\* A mutant: the rule registered under the id is cleaned up before validation.
AddCombinationCleansUpFirst(config) ==
    IF \/ Len(config.keys) = 0
       \/ \E k \in DOMAIN config.keys : ~ParseKeyTrigger(config.keys[k]).ok
    THEN IF activeShortcuts[config.id] # 0
         THEN /\ Terminate({activeShortcuts[config.id]})
              /\ activeShortcuts' = [activeShortcuts EXCEPT ![config.id] = 0]
              /\ UNCHANGED <<regs, overwritten, subscribed, stackStopped, destroyedRules>>
         ELSE UNCHANGED <<regVars, subs>>
    ELSE RegisterShortcut(config)

\* A mutant: only the first alternative is validated.
AddCombinationChecksFirstOnly(config) ==
    IF \/ Len(config.keys) = 0
       \/ ~ParseKeyTrigger(config.keys[1]).ok
    THEN UNCHANGED <<regVars, subs>>
    ELSE RegisterShortcut(config)

\* addCombination: validation, then registration; the stream returned is the one
\* of registration Len(regs) + 1 (EMPTY, and nothing registered, when invalid)
AddCombination(config) ==
    IF \/ Len(config.keys) = 0
       \/ \E k \in DOMAIN config.keys : ~ParseKeyTrigger(config.keys[k]).ok
    THEN UNCHANGED <<regVars, subs>>
    ELSE RegisterShortcut(config)

\* addSequence: validation, then registration
AddSequence(config) ==
    IF \/ Len(config.sequence) = 0
       \/ \E k \in DOMAIN config.sequence : config.sequence[k] \in {"", UNDEFINED, NULL}
    THEN UNCHANGED <<regVars, subs>>
    ELSE RegisterShortcut(config)

\* remove(id): the state change
Remove(id) ==
    IF activeShortcuts[id] # 0
    THEN /\ Terminate({activeShortcuts[id]})
         /\ activeShortcuts' = [activeShortcuts EXCEPT ![id] = 0]
         /\ UNCHANGED <<regs, overwritten, subscribed, stackStopped, destroyedRules>>
    ELSE UNCHANGED <<regVars, subs>>

\* hasShortcut(id)
HasShortcut(id) == activeShortcuts[id] # 0

\* config.description, an optional field
Description(config) ==
    IF "description" \in DOMAIN config THEN config.description ELSE UNDEFINED

\* a configuration with a description
Described(config, description) == config @@ [description |-> description]

\* A mutant: the ids ever registered are listed.
GetActiveShortcutsEverRegistered ==
    {[type |-> regs[g].type, id |-> regs[g].id, context |-> regs[g].context,
      description |-> Description(regs[g])] : g \in DOMAIN regs}

\* getActiveShortcuts(): one entry per key of the registry (its order is left out)
GetActiveShortcuts ==
    {[type |-> regs[activeShortcuts[id]].type, id |-> id,
      context |-> regs[activeShortcuts[id]].context,
      description |-> Description(regs[activeShortcuts[id]])] :
        id \in {i \in Ids : activeShortcuts[i] # 0}}

\* A mutant: only the rule registered first is terminated.
DestroyFirstOnly ==
    LET registered == {activeShortcuts[id] : id \in Ids} \ {0}
        first == {g \in registered : \A h \in registered : g <= h} IN
    /\ Terminate(first)
    /\ activeShortcuts' = [id \in Ids |-> 0]
    /\ stackStopped' = TRUE
    /\ destroyedRules' = destroyedRules \cup registered
    /\ UNCHANGED <<regs, overwritten, subscribed>>

\* destroy(): every registered rule's terminator$ emits and completes, the registry
\* is cleared, contextStack$ completes
Destroy ==
    LET registered == {activeShortcuts[id] : id \in Ids} \ {0} IN
    /\ Terminate(registered)
    /\ activeShortcuts' = [id \in Ids |-> 0]
    /\ stackStopped' = TRUE
    /\ destroyedRules' = destroyedRules \cup registered
    /\ UNCHANGED <<regs, overwritten, subscribed>>

\* ------------------------------------------------------------- pipelines

\* One trigger stream of a combination: context gate, modifier and key filters,
\* priority filter. TRUE when the event comes out of it.
CombinationEmits(sub, config, trig, event) ==
    /\ sub.hasCtx
    /\ FilterByContext(config.context, config.strict, sub.activeCtx)
    /\ TriggerMatches(ParseKeyTrigger(config.keys[trig]), event)
    /\ CombinationPriority(config, event, sub.activeCtx)

\* A mutant: the matcher sees every event of the source, the gate comes after it.
SequenceAdvanceUngated(sub, config, event) ==
    IF ~sub.hasCtx THEN sub
    ELSE IF config.sequenceTimeoutMs > 0
    THEN [sub EXCEPT !.scan = SequenceScan(sub.scan, event, config.sequence,
                                           config.sequenceTimeoutMs, now)]
    ELSE [sub EXCEPT !.buffer = BufferCount(sub.buffer, event, Len(config.sequence))]

\* The stream of a sequence up to the matcher: the subscription after the event
\* went through the context gate and scan or bufferCount.
SequenceAdvance(sub, config, event) ==
    IF ~sub.hasCtx \/ ~FilterByContext(config.context, config.strict, sub.activeCtx) THEN sub
    ELSE IF config.sequenceTimeoutMs > 0
    THEN [sub EXCEPT !.scan = SequenceScan(sub.scan, event, config.sequence,
                                           config.sequenceTimeoutMs, now)]
    ELSE [sub EXCEPT !.buffer = BufferCount(sub.buffer, event, Len(config.sequence))]

\* The stream of a sequence: TRUE when the event completes the sequence and the
\* completed sequence passes the priority filter.
SequenceEmits(sub, config, event) ==
    /\ sub.hasCtx
    /\ FilterByContext(config.context, config.strict, sub.activeCtx)
    /\ IF config.sequenceTimeoutMs > 0
       THEN SequenceScan(sub.scan, event, config.sequence,
                         config.sequenceTimeoutMs, now).emitState = "Emit"
       ELSE BufferMatches(sub.buffer, event, config.sequence)
    /\ SequencePriority(config, sub.activeCtx)

\* The events a stream hands to its tap when it emits on `event`: the event
\* itself (combination), matchedEvents of the scan state, or the window
\* bufferCount closes. The arrays hold the event objects themselves; here each
\* holds the event as it was when it reached this subscription.
MatchedEvents(sub, config, event) ==
    IF config.type = "combination" THEN <<event>>
    ELSE IF config.sequenceTimeoutMs > 0
    THEN SequenceScan(sub.scan, event, config.sequence,
                      config.sequenceTimeoutMs, now).matchedEvents
    ELSE Append(sub.buffer, event)

\* A mutant: preventDefault() is called on every event of the sequence.
TapPreventsEveryEvent(config, gen, events) ==
    IF PreventDefault(config)
    THEN [k \in DOMAIN events |->
            [events[k] EXCEPT !.preventedBy = events[k].preventedBy \cup {gen}]]
    ELSE events

\* tap: if (preventDefault) event.preventDefault(), on the event of a combination
\* and on events[events.length - 1] of a sequence; the events after it
Tap(config, gen, events) ==
    IF PreventDefault(config) /\ Len(events) > 0
    THEN [events EXCEPT ![Len(events)].preventedBy =
                            events[Len(events)].preventedBy \cup {gen}]
    ELSE events

Emits(i, trig, event) ==
    IF ConfigOf(i).type = "combination"
    THEN CombinationEmits(subs[i], ConfigOf(i), trig, event)
    ELSE SequenceEmits(subs[i], ConfigOf(i), event)

\* What is recorded of an emission: who emitted, the manager's resolved context
\* (getActiveContext()) when it did, and the events of the match after the tap.
Emission(i, trig) ==
    [events |-> Tap(ConfigOf(i), subs[i].gen, MatchedEvents(subs[i], ConfigOf(i), ev)),
     gen |-> subs[i].gen, sub |-> i, trig |-> trig, ctx |-> GetActiveContext]

\* ------------------------------------------------------ call history


Call(op, arg, fn, ret) ==
    [fn |-> fn, op |-> op, arg |-> arg, ret |-> ret,
     stackBefore |-> contextStack, overrideBefore |-> overrideContext,
     setByBefore |-> overrideSetBy, activeBefore |-> GetActiveContext]

NoCall ==
    [fn |-> 0, op |-> "none", arg |-> UNDEFINED, ret |-> UNDEFINED,
     stackBefore |-> <<>>, overrideBefore |-> NO_OVERRIDE,
     setByBefore |-> 0, activeBefore |-> NULL]

Record(call) == lastCall' = call /\ prevCall' = lastCall


\* ------------------------------------------------- Spec: rules and events

\* Bounds of Spec.
MaxDepth == 2
MaxOverrides == 1
MaxRegs == 2
MaxSubs == 2

DispatchContexts == {NULL, "editor", "modal"}

CtrlG == Trigger("G", YES)
PlainI == Trigger("I", UNDEFINED)

\* The configurations registered: a global rule (strict or not) and a rule scoped
\* to "editor", each a combination or a sequence; the scoped rule has the global
\* rule's trigger or another one.
CombinationMenu ==
    {CombinationConfig("global", <<CtrlG>>, NULL, strict, "keydown") : strict \in BOOLEAN}
    \cup {CombinationConfig("scoped", <<t>>, "editor", FALSE, "keydown") : t \in {CtrlG, PlainI}}

SequenceMenu ==
    {SequenceConfig("global", <<"G", "I">>, 0, NULL, FALSE, "keydown"),
     SequenceConfig("global", <<"G", "I">>, 1, NULL, TRUE, "keydown"),
     SequenceConfig("scoped", <<"G", "I">>, 0, "editor", FALSE, "keydown"),
     SequenceConfig("scoped", <<"I">>, 0, "editor", FALSE, "keydown")}

\* The key events dispatched on document.
EventMenu ==
    {KeyEvent("keydown", "g", TRUE), KeyEvent("keydown", "g", FALSE),
     KeyEvent("keydown", "i", FALSE)}

NoShortcuts ==
    /\ regs = <<>>
    /\ activeShortcuts = [id \in Ids |-> 0]
    /\ terminated = {}
    /\ stackStopped = FALSE
    /\ destroyedRules = {}
    /\ subs = <<>>
    /\ now = 0
    /\ ev = NoEvent
    /\ slot = Done
    /\ emitted = <<>>
    /\ handlerActive = FALSE
    /\ reentered = FALSE
    /\ observers = <<>>
    /\ log = <<>>
    /\ failed = {}
    /\ NoProvider
    /\ completions = <<>>
    /\ overwritten = {}
    /\ subscribed = [k \in DOMAIN subs |-> subs[k].gen]
    /\ listeners = [type \in EventTypes |-> IF RefCount(type, subs) > 0 THEN 1 ELSE 0]

\* new Hotkeys()
Init ==
    /\ initialContext = NULL
    /\ contextStack = <<initialContext>>
    /\ overrideContext = NO_OVERRIDE
    /\ restoreFns = <<>>
    /\ overrideSetBy = 0
    /\ lastCall = NoCall
    /\ prevCall = NoCall
    /\ NoShortcuts

Idle == ev = NoEvent

\* The application calls the context API between events, and a subscriber's
\* handler calls it while the event that reached it is still being delivered.
MayCallContextApi == Idle \/ handlerActive

ContextCallMade ==
    /\ reentered' = (reentered \/ ~Idle)
    /\ UNCHANGED <<histVars, regVars, now, ev, slot, emitted, handlerActive, log, failed, reactVars>>

DoEnterContext ==
    \E c \in DispatchContexts :
        /\ MayCallContextApi
        /\ Len(contextStack) < MaxDepth
        /\ EnterContext(c)
        /\ ContextCallMade

DoLeaveContext ==
    /\ MayCallContextApi
    /\ LeaveContext
    /\ ContextCallMade

DoSetContext ==
    \E c \in DispatchContexts :
        /\ MayCallContextApi
        /\ Len(restoreFns) < MaxOverrides
        /\ SetContext(c)
        /\ ContextCallMade

DoRestore ==
    \E fn \in DOMAIN restoreFns :
        /\ MayCallContextApi
        /\ Restore(fn)
        /\ ContextCallMade

ctxState == <<initialContext, contextStack, overrideContext, restoreFns, overrideSetBy, observers>>

DoAddCombination ==
    \E config \in CombinationMenu :
        /\ Idle
        /\ Len(regs) < MaxRegs
        /\ AddCombination(config)
        /\ UNCHANGED <<ctxState, histVars, now, evVars>>

DoAddSequence ==
    \E config \in SequenceMenu :
        /\ Idle
        /\ Len(regs) < MaxRegs
        /\ AddSequence(config)
        /\ UNCHANGED <<ctxState, histVars, now, evVars>>

\* stream.subscribe(handler), on the stream registration gen returned
DoSubscribe ==
    \E gen \in DOMAIN regs :
        /\ Idle
        /\ Len(subs) < MaxSubs
        /\ subs' = Append(subs, Subscription(gen))
        /\ subscribed' = Append(subscribed, gen)
        /\ listeners' = Attached(Append(subs, Subscription(gen)))
        /\ UNCHANGED <<ctxState, histVars, regs, activeShortcuts, terminated, completions,
                       overwritten, stackStopped, destroyedRules, now, evVars>>

\* document.dispatchEvent(event): the shared source starts handing the event to
\* its subscribers
DispatchEvent(event) ==
    /\ Idle
    /\ ev' = event
    /\ slot' = NextSlot(0, 0, event)
    /\ emitted' = <<>>
    /\ handlerActive' = FALSE
    /\ reentered' = FALSE
    /\ UNCHANGED <<ctxState, histVars, regVars, subs, now, log, failed, reactVars>>

Dispatch == \E event \in EventMenu : DispatchEvent(event)

\* the event reaches the next stream subscribed to the source
Deliver ==
    /\ ~Idle
    /\ slot # Done
    /\ LET i == slot.sub
           config == ConfigOf(i)
           emits == Emits(i, slot.trig, ev)
       IN  /\ subs' = IF config.type = "sequence"
                      THEN [subs EXCEPT ![i] = SequenceAdvance(subs[i], config, ev)]
                      ELSE subs
           /\ emitted' = IF emits THEN Append(emitted, Emission(i, slot.trig)) ELSE emitted
           /\ ev' = IF emits THEN Last(Emission(i, slot.trig).events) ELSE ev
           /\ handlerActive' = emits
           /\ slot' = NextSlot(i, slot.trig, ev)
    /\ UNCHANGED <<ctxState, histVars, regVars, now, reentered, log, failed, reactVars>>

\* every subscriber has been served; dispatchEvent returns
EndDispatch ==
    /\ ~Idle
    /\ slot = Done
    /\ ev' = NoEvent
    /\ emitted' = <<>>
    /\ handlerActive' = FALSE
    /\ reentered' = FALSE
    /\ UNCHANGED <<ctxState, histVars, regVars, subs, now, slot, log, failed, reactVars>>

Next ==
    \/ DoEnterContext
    \/ DoLeaveContext
    \/ DoSetContext
    \/ DoRestore
    \/ DoAddCombination
    \/ DoAddSequence
    \/ DoSubscribe
    \/ Dispatch
    \/ Deliver
    \/ EndDispatch

Spec == Init /\ [][Next]_vars

\* ------------------------------------- SpecSeq: sequence rules on key streams

\* Bounds of SpecSeq: the number of events dispatched, the clock, and the timeout
\* of the timed rule (in clock ticks).
MaxEvents == 5
MaxTime == 2
SeqTimeout == 1

\* The token lists tried, and the keys pressed ("x" matches no token).
SequenceTokenMenu ==
    {<<"A", "A">>, <<"A", "B">>,
     <<"A", "A", "A">>, <<"A", "A", "B">>, <<"A", "B", "A">>, <<"A", "B", "B">>}

SequenceKeyMenu == {"a", "b", "x"}

\* new Hotkeys(); addSequence of one token list without and with a timeout, both
\* global; one subscriber on each returned stream
InitSeq ==
    /\ initialContext = NULL
    /\ contextStack = <<initialContext>>
    /\ overrideContext = NO_OVERRIDE
    /\ restoreFns = <<>>
    /\ overrideSetBy = 0
    /\ lastCall = NoCall
    /\ prevCall = NoCall
    /\ \E q \in SequenceTokenMenu :
            regs = <<SequenceConfig("untimed", q, 0, NULL, FALSE, "keydown"),
                     SequenceConfig("timed", q, SeqTimeout, NULL, FALSE, "keydown")>>
    /\ activeShortcuts = [id \in Ids |-> CASE id = "untimed" -> 1 [] id = "timed" -> 2 [] OTHER -> 0]
    /\ terminated = {}
    /\ stackStopped = FALSE
    /\ destroyedRules = {}
    /\ subs = <<Subscription(1), Subscription(2)>>
    /\ now = 0
    /\ ev = NoEvent
    /\ slot = Done
    /\ emitted = <<>>
    /\ handlerActive = FALSE
    /\ reentered = FALSE
    /\ observers = <<>>
    /\ log = <<>>
    /\ failed = {}
    /\ NoProvider
    /\ completions = <<>>
    /\ overwritten = {}
    /\ subscribed = [k \in DOMAIN subs |-> subs[k].gen]
    /\ listeners = [type \in EventTypes |-> IF RefCount(type, subs) > 0 THEN 1 ELSE 0]

\* time passes between events (performance.now() advances)
Tick ==
    /\ Idle
    /\ now < MaxTime
    /\ Len(log) < MaxEvents
    /\ now' = now + 1
    /\ UNCHANGED <<ctxState, histVars, regVars, subs, evVars>>

\* a key is pressed
DispatchKey ==
    \E key \in SequenceKeyMenu :
        /\ Len(log) < MaxEvents
        /\ DispatchEvent(KeyEvent("keydown", key, FALSE))

\* dispatchEvent returns; the history keeps the key, its time and the
\* registrations whose stream emitted on it
EndDispatchLogged ==
    /\ ~Idle
    /\ slot = Done
    /\ ev' = NoEvent
    /\ emitted' = <<>>
    /\ handlerActive' = FALSE
    /\ reentered' = FALSE
    /\ log' = Append(log, [key |-> ev.key,
                           emits |-> {emitted[k].gen : k \in DOMAIN emitted},
                           time |-> now])
    /\ UNCHANGED <<ctxState, histVars, regVars, subs, now, slot, failed, reactVars>>

NextSeq ==
    \/ Tick
    \/ DispatchKey
    \/ Deliver
    \/ EndDispatchLogged

SpecSeq == InitSeq /\ [][NextSeq]_vars

\* --------------------------------- SpecKeys: one combination rule, any event

\* The modifier requirements of a trigger: unset, true, false.
Requirements == {UNDEFINED, YES, NO}

\* The triggers tried: the key S in shorthand and in object form with every
\* choice of the four requirements.
TriggerMenu ==
    {BareKey("s")}
    \cup {TriggerWith("S", c, a, s, m) :
            c \in Requirements, a \in Requirements, s \in Requirements, m \in Requirements}

\* Alternatives of which two can match one event.
AlternativeMenu ==
    {TriggerWith("S", YES, UNDEFINED, UNDEFINED, UNDEFINED),
     TriggerWith("S", YES, NO, UNDEFINED, UNDEFINED),
     TriggerWith("S", UNDEFINED, YES, UNDEFINED, UNDEFINED)}

KeysMenu ==
    {<<t>> : t \in TriggerMenu} \cup {<<t1, t2>> : t1 \in AlternativeMenu, t2 \in AlternativeMenu}

\* The events dispatched: two keys, every choice of the four flags.
AnyEventMenu ==
    {KeyEventWith("keydown", key, c, a, s, m) :
        key \in {"s", "x"}, c \in BOOLEAN, a \in BOOLEAN, s \in BOOLEAN, m \in BOOLEAN}

\* new Hotkeys(); addCombination({id, keys}).subscribe(handler)
InitKeys ==
    /\ initialContext = NULL
    /\ contextStack = <<initialContext>>
    /\ overrideContext = NO_OVERRIDE
    /\ restoreFns = <<>>
    /\ overrideSetBy = 0
    /\ lastCall = NoCall
    /\ prevCall = NoCall
    /\ \E keys \in KeysMenu :
            regs = <<CombinationConfig("global", keys, NULL, FALSE, "keydown")>>
    /\ activeShortcuts = [id \in Ids |-> IF id = "global" THEN 1 ELSE 0]
    /\ terminated = {}
    /\ stackStopped = FALSE
    /\ destroyedRules = {}
    /\ subs = <<Subscription(1)>>
    /\ now = 0
    /\ ev = NoEvent
    /\ slot = Done
    /\ emitted = <<>>
    /\ handlerActive = FALSE
    /\ reentered = FALSE
    /\ observers = <<>>
    /\ log = <<>>
    /\ failed = {}
    /\ NoProvider
    /\ completions = <<>>
    /\ overwritten = {}
    /\ subscribed = [k \in DOMAIN subs |-> subs[k].gen]
    /\ listeners = [type \in EventTypes |-> IF RefCount(type, subs) > 0 THEN 1 ELSE 0]

DispatchAny == \E event \in AnyEventMenu : DispatchEvent(event)

NextKeys ==
    \/ DispatchAny
    \/ Deliver
    \/ EndDispatch

SpecKeys == InitKeys /\ [][NextKeys]_vars

\* ------------------------------ SpecReg: registering, overwriting, removing

\* Bound of SpecReg.
MaxRegistrations == 2

\* The configurations registered: under one id a combination on Ctrl+G and a
\* sequence on I; under another id a combination on I in "editor", on the press
\* or the release of the key.
RegistryCombinationMenu ==
    {Described(CombinationConfig("global", <<CtrlG>>, NULL, FALSE, "keydown"), "Go"),
     CombinationConfig("scoped", <<PlainI>>, "editor", FALSE, "keydown"),
     CombinationConfig("scoped", <<PlainI>>, "editor", FALSE, "keyup")}

RegistrySequenceMenu ==
    {Described(SequenceConfig("global", <<"I">>, 0, NULL, FALSE, "keydown"), "Insert")}

\* Configurations that do not pass validation: no trigger, an alternative with an
\* empty or a missing key, an empty shorthand; no token, an empty token.
InvalidCombinationMenu ==
    {CombinationConfig("global", <<>>, NULL, FALSE, "keydown"),
     CombinationConfig("global", <<CtrlG, Trigger("", UNDEFINED)>>, NULL, FALSE, "keydown"),
     CombinationConfig("scoped", <<Trigger(UNDEFINED, YES)>>, NULL, FALSE, "keydown"),
     CombinationConfig("scoped", <<BareKey("")>>, NULL, FALSE, "keydown")}

InvalidSequenceMenu ==
    {SequenceConfig("global", <<>>, 0, NULL, FALSE, "keydown"),
     SequenceConfig("scoped", <<"I", "">>, 0, NULL, FALSE, "keydown")}

\* EMPTY, the stream a registration that fails validation returns: the stream of
\* no registration
EMPTY == 0

\* What a registration call returns: EMPTY, or the stream of the new registration
Returned == IF regs' = regs THEN EMPTY ELSE Len(regs')

RegistryIds == {"global", "scoped"}

\* addCombination(config)
CallAddCombination ==
    \E config \in RegistryCombinationMenu \cup InvalidCombinationMenu :
        /\ Idle
        /\ Len(regs) < MaxRegistrations
        /\ AddCombination(config)
        /\ Record(Call("addCombination", config, 0, Returned))
        /\ UNCHANGED <<ctxState, now, evVars>>

\* addSequence(config)
CallAddSequence ==
    \E config \in RegistrySequenceMenu \cup InvalidSequenceMenu :
        /\ Idle
        /\ Len(regs) < MaxRegistrations
        /\ AddSequence(config)
        /\ Record(Call("addSequence", config, 0, Returned))
        /\ UNCHANGED <<ctxState, now, evVars>>

\* remove(id), and what it returns
CallRemove ==
    \E id \in RegistryIds :
        /\ Idle
        /\ Remove(id)
        /\ Record(Call("remove", id, 0, activeShortcuts[id] # 0))
        /\ UNCHANGED <<ctxState, now, evVars>>

\* destroy()
CallDestroy ==
    /\ Idle
    /\ ~stackStopped
    /\ Destroy
    /\ Record(Call("destroy", UNDEFINED, 0, UNDEFINED))
    /\ UNCHANGED <<ctxState, now, evVars>>

\* The key events dispatched on document: one for each trigger registered.
RegistryEventMenu == {KeyEvent("keydown", "g", TRUE), KeyEvent("keydown", "i", FALSE)}

DispatchRegistered == \E event \in RegistryEventMenu : DispatchEvent(event)

NextReg ==
    \/ CallAddCombination
    \/ CallAddSequence
    \/ CallRemove
    \/ CallDestroy
    \/ DoSubscribe
    \/ DispatchRegistered
    \/ Deliver
    \/ EndDispatch

SpecReg == Init /\ [][NextReg]_vars


\* --------------------------------------- SpecErr: handlers that throw

\* Bounds of SpecErr.
MaxFailEvents == 3
MaxThrows == 2

\* new Hotkeys(); two combinations, one on Ctrl+G and one on I or Ctrl+G; two
\* subscribers on the first stream, then one on the second
InitErr ==
    /\ initialContext = NULL
    /\ contextStack = <<initialContext>>
    /\ overrideContext = NO_OVERRIDE
    /\ restoreFns = <<>>
    /\ overrideSetBy = 0
    /\ lastCall = NoCall
    /\ prevCall = NoCall
    /\ regs = <<CombinationConfig("global", <<CtrlG>>, NULL, FALSE, "keydown"),
                CombinationConfig("scoped", <<PlainI, CtrlG>>, NULL, FALSE, "keydown")>>
    /\ activeShortcuts = [id \in Ids |-> CASE id = "global" -> 1 [] id = "scoped" -> 2 [] OTHER -> 0]
    /\ terminated = {}
    /\ stackStopped = FALSE
    /\ destroyedRules = {}
    /\ subs = <<Subscription(1), Subscription(1), Subscription(2)>>
    /\ now = 0
    /\ ev = NoEvent
    /\ slot = Done
    /\ emitted = <<>>
    /\ handlerActive = FALSE
    /\ reentered = FALSE
    /\ observers = <<>>
    /\ log = <<>>
    /\ failed = {}
    /\ NoProvider
    /\ completions = <<>>
    /\ overwritten = {}
    /\ subscribed = [k \in DOMAIN subs |-> subs[k].gen]
    /\ listeners = [type \in EventTypes |-> IF RefCount(type, subs) > 0 THEN 1 ELSE 0]

DispatchFailing ==
    \E event \in RegistryEventMenu :
        /\ Len(log) < MaxFailEvents
        /\ DispatchEvent(event)

\* A mutant: the subscription whose handler threw is closed and gets no further
\* event.
HandlerErrorClosesSubscription(i) == [subs EXCEPT ![i].hasCtx = FALSE]

\* The subscriptions after the next handler of subscription i threw: the
\* subscriber catches the error and reports it asynchronously; nothing is
\* unsubscribed and nothing reaches the stream or the source.
ReportUnhandledError(i) == subs

\* the handler that received the latest emission throws
HandlerThrows ==
    /\ handlerActive
    /\ Cardinality(failed) < MaxThrows
    /\ failed' = failed \cup {[event |-> Len(log) + 1, sub |-> emitted[Len(emitted)].sub]}
    /\ subs' = ReportUnhandledError(emitted[Len(emitted)].sub)
    /\ handlerActive' = FALSE
    /\ UNCHANGED <<ctxState, histVars, regVars, now, ev, slot, emitted, reentered, log,
                   reactVars>>

NextErr ==
    \/ DispatchFailing
    \/ Deliver
    \/ HandlerThrows
    \/ EndDispatchLogged

SpecErr == InitErr /\ [][NextErr]_vars


\* ------------------------------------------- SpecCmp: the key matcher

\* The configured tokens and the event keys compared: letters in both cases,
\* named keys as Keys spells them and in lower case.
TokenMenu == {"A", "a", "G", "g", "I", "Escape", "escape", "Enter"}

EventKeyMenu == {"a", "A", "g", "G", "i", "Escape", "escape", "Enter", "enter"}

\* new Hotkeys(); addCombination({id, keys: {key: token}}).subscribe(handler)
InitCmp ==
    /\ initialContext = NULL
    /\ contextStack = <<initialContext>>
    /\ overrideContext = NO_OVERRIDE
    /\ restoreFns = <<>>
    /\ overrideSetBy = 0
    /\ lastCall = NoCall
    /\ prevCall = NoCall
    /\ \E token \in TokenMenu :
            regs = <<CombinationConfig("global", <<Trigger(token, UNDEFINED)>>, NULL, FALSE, "keydown")>>
    /\ activeShortcuts = [id \in Ids |-> IF id = "global" THEN 1 ELSE 0]
    /\ terminated = {}
    /\ stackStopped = FALSE
    /\ destroyedRules = {}
    /\ subs = <<Subscription(1)>>
    /\ now = 0
    /\ ev = NoEvent
    /\ slot = Done
    /\ emitted = <<>>
    /\ handlerActive = FALSE
    /\ reentered = FALSE
    /\ observers = <<>>
    /\ log = <<>>
    /\ failed = {}
    /\ NoProvider
    /\ completions = <<>>
    /\ overwritten = {}
    /\ subscribed = [k \in DOMAIN subs |-> subs[k].gen]
    /\ listeners = [type \in EventTypes |-> IF RefCount(type, subs) > 0 THEN 1 ELSE 0]

\* dispatchKeyEvent(document, key)
DispatchPlainKey == \E key \in EventKeyMenu : DispatchEvent(KeyEvent("keydown", key, FALSE))

NextCmp ==
    \/ DispatchPlainKey
    \/ Deliver
    \/ EndDispatch

SpecCmp == InitCmp /\ [][NextCmp]_vars


\* ------------------------------------------------- SpecCtx: resolver + history

\* new Hotkeys(initialContext)
InitCtx ==
    /\ initialContext \in InitialContexts
    /\ contextStack = <<initialContext>>
    /\ overrideContext = NO_OVERRIDE
    /\ restoreFns = <<>>
    /\ overrideSetBy = 0
    /\ lastCall = NoCall
    /\ prevCall = NoCall
    /\ NoShortcuts

CallEnterContext ==
    \E c \in Contexts :
        /\ Len(contextStack) < MaxStack
        /\ EnterContext(c)
        /\ Record(Call("enterContext", c, 0, UNDEFINED))
        /\ UNCHANGED <<regVars, now, evVars>>

CallLeaveContext ==
    /\ LeaveContext
    /\ Record(Call("leaveContext", UNDEFINED, 0, LeaveContextResult(contextStack)))
    /\ UNCHANGED <<regVars, now, evVars>>

CallSetContext ==
    \E c \in Contexts :
        /\ Len(restoreFns) < MaxRestore
        /\ SetContext(c)
        /\ Record(Call("setContext", c, Len(restoreFns) + 1, UNDEFINED))
        /\ UNCHANGED <<regVars, now, evVars>>

CallRestore ==
    \E fn \in DOMAIN restoreFns :
        /\ Restore(fn)
        /\ Record(Call("restore", UNDEFINED, fn, UNDEFINED))
        /\ UNCHANGED <<regVars, now, evVars>>

\* onContextChange$.subscribe(handler)
CallSubscribe ==
    /\ Len(observers) < MaxObservers
    /\ observers' = Append(Silent, Observer)
    /\ Record(Call("subscribe", UNDEFINED, 0, UNDEFINED))
    /\ UNCHANGED <<initialContext, contextStack, overrideContext, restoreFns, overrideSetBy,
                   regVars, subs, now, evVars>>

NextCtx ==
    \/ CallSubscribe
    \/ CallEnterContext
    \/ CallLeaveContext
    \/ CallSetContext
    \/ CallRestore

SpecCtx == InitCtx /\ [][NextCtx]_vars


\* ------------------------------------------- claims on the context resolver

OverrideIsSet == overrideSetBy # 0

\* C5: after any sequence of enterContext, leaveContext, setContext and restore
\* calls, getActiveContext() is the value of the pending override (the argument of
\* the setContext call that installed it) if one is pending, and the top of the
\* context stack otherwise.
C5_ActiveIsOverrideElseStackTop ==
    GetActiveContext =
        IF OverrideIsSet THEN restoreFns[overrideSetBy] ELSE Last(contextStack)

C5_Witness ==
    /\ lastCall.op = "leaveContext"
    /\ prevCall.op = "setContext"
    /\ OverrideIsSet
    /\ restoreFns[overrideSetBy] = NULL
    /\ Last(contextStack) = "parent"

\* C6: while an override is pending, enterContext and leaveContext leave the
\* resolved active context as it was; when the override is cleared by the restore
\* function of the call that installed it, the resolved active context is the top
\* of the stack as it is then.
C6_OverridePrecedence ==
    /\ (lastCall.op \in {"enterContext", "leaveContext"} /\ lastCall.setByBefore # 0)
          => GetActiveContext = lastCall.activeBefore
    /\ (lastCall.op = "restore" /\ lastCall.setByBefore = lastCall.fn)
          => GetActiveContext = Last(contextStack)

\* enter("parent"), setContext("override"), enter("child"), restore: "child"
C6_Witness ==
    /\ lastCall.op = "restore"
    /\ lastCall.setByBefore = lastCall.fn
    /\ lastCall.overrideBefore = "override"
    /\ prevCall.op = "enterContext"
    /\ prevCall.arg = "child"
    /\ prevCall.activeBefore = "override"
    /\ contextStack = <<NULL, "parent", "child">>
    /\ GetActiveContext = "child"

StaleRestore ==
    /\ lastCall.op = "restore"
    /\ lastCall.setByBefore # 0
    /\ lastCall.setByBefore # lastCall.fn

NothingChangedByLastCall ==
    /\ overrideContext = lastCall.overrideBefore
    /\ overrideSetBy = lastCall.setByBefore
    /\ contextStack = lastCall.stackBefore

\* C7 as claimed: a restore function called while the pending override was
\* installed by a later setContext call changes nothing, whatever the two values.
C7_StaleRestoreChangesNothing == StaleRestore => NothingChangedByLastCall

\* C7, amended: a stale restore function leaves the newer override in place when
\* the newer override's value differs from the value its own setContext call set,
\* and clears the newer override when the two values are equal; the stack is
\* untouched either way.
C7_StaleRestoreComparesValues ==
    StaleRestore =>
        /\ contextStack = lastCall.stackBefore
        /\ IF restoreFns[lastCall.setByBefore] # restoreFns[lastCall.fn]
             THEN NothingChangedByLastCall
             ELSE overrideContext = NO_OVERRIDE /\ ~OverrideIsSet

C7_Witness ==
    /\ StaleRestore
    /\ restoreFns[lastCall.setByBefore] # restoreFns[lastCall.fn]
    /\ overrideContext = restoreFns[lastCall.setByBefore]

C9_BaseContextStays ==
    /\ Len(contextStack) >= 1
    /\ contextStack[1] = initialContext
    /\ (lastCall.op = "leaveContext" /\ Len(lastCall.stackBefore) = 1)
          => /\ lastCall.ret = UNDEFINED
             /\ contextStack = lastCall.stackBefore
             /\ GetActiveContext = lastCall.activeBefore

C9_Witness ==
    /\ lastCall.op = "leaveContext"
    /\ Len(lastCall.stackBefore) = 1
    /\ prevCall.op = "leaveContext"
    /\ prevCall.ret = "child"

\* C10: leaveContext() on a stack of more than one element removes and returns
\* its top, the context entered last and not yet left; enterContext(c) followed at
\* once by leaveContext() returns c and leaves the stack as it was before the enter.
C10_StackIsLifo ==
    /\ (lastCall.op = "leaveContext" /\ Len(lastCall.stackBefore) > 1)
          => /\ lastCall.ret = Last(lastCall.stackBefore)
             /\ contextStack = Front(lastCall.stackBefore)
    /\ (lastCall.op = "leaveContext" /\ prevCall.op = "enterContext")
          => /\ lastCall.ret = prevCall.arg
             /\ contextStack = prevCall.stackBefore

C10_Witness ==
    /\ lastCall.op = "leaveContext"
    /\ prevCall.op = "enterContext"
    /\ prevCall.arg = "child"
    /\ contextStack = <<NULL, "parent">>


\* ------------------------------------------------ claims on onContextChange$

\* C11: a subscriber of onContextChange$ receives the current resolved context
\* when it subscribes; afterwards each API call delivers to it exactly the new
\* resolved context when the call changed the resolved context and nothing when
\* it did not, so it never receives two equal values in a row.
C11_OneValuePerContextChange ==
    \A i \in DOMAIN observers :
        /\ observers[i].last = GetActiveContext
        /\ observers[i].got =
                IF lastCall.op = "subscribe" /\ i = Len(observers)
                THEN <<GetActiveContext>>
                ELSE IF lastCall.op # "subscribe" /\ GetActiveContext # lastCall.activeBefore
                THEN <<GetActiveContext>>
                ELSE <<>>

\* A subscriber was there when setContext changed the resolved context, and then
\* received nothing from a stack push made under the override.
C11_Witness ==
    /\ Len(observers) = 1
    /\ prevCall.op = "setContext" /\ prevCall.activeBefore # prevCall.arg
    /\ lastCall.op = "enterContext" /\ lastCall.arg # lastCall.activeBefore
    /\ observers[1].got = <<>>
    /\ observers[1].last = prevCall.arg

\* ------------------------------------------------ claims on sequence rules

\* the key that a token names, as the keyboard sends it
Pressed(token) == IF token = "A" THEN "a" ELSE "b"

LogKeys == [i \in DOMAIN log |-> log[i].key]

Gap(i) == log[i].time - log[i - 1].time

Timed(gen) == regs[gen].sequenceTimeoutMs > 0

\* C12: for a rule [K1,K2,K3], with or without a timeout, the events
\* K1,K9,K1,K2,K3 (no gap over the timeout) make it emit exactly once, on the
\* last one, and the events K1,K2,K9 never make it emit.
C12_SequenceExactness ==
    \A gen \in DOMAIN regs :
        LET q == regs[gen].sequence IN
        Len(q) = 3 =>
            /\ ( /\ LogKeys = <<Pressed(q[1]), "x", Pressed(q[1]), Pressed(q[2]), Pressed(q[3])>>
                 /\ Timed(gen) => \A i \in 2..5 : Gap(i) <= regs[gen].sequenceTimeoutMs )
                => \A i \in 1..5 : (gen \in log[i].emits) <=> (i = 5)
            /\ ( /\ Len(log) >= 3
                 /\ SubSeq(LogKeys, 1, 3) = <<Pressed(q[1]), Pressed(q[2]), "x">> )
                => \A i \in 1..3 : gen \notin log[i].emits

\* The rule [A,B,A], the keys a,x,a,b,a at times 0,0,1,1,2: both the rule
\* without and the rule with a timeout emitted on the last key only.
C12_Witness ==
    /\ regs[1].sequence = <<"A", "B", "A">>
    /\ LogKeys = <<"a", "x", "a", "b", "a">>
    /\ [i \in DOMAIN log |-> log[i].time] = <<0, 0, 1, 1, 2>>
    /\ [i \in DOMAIN log |-> log[i].emits] = <<{}, {}, {}, {}, {1, 2}>>

\* C13: two emissions of a sequence rule of length N, with or without a
\* timeout, are at least N gated events apart: no event of a completed match
\* counts towards a later match.
C13_EmissionsAtLeastNApart ==
    \A gen \in DOMAIN regs :
        \A i \in DOMAIN log, j \in DOMAIN log :
            (i < j /\ gen \in log[i].emits /\ gen \in log[j].emits)
                => j - i >= Len(regs[gen].sequence)

\* C14: for a rule with timeout T whose tokens are pressed in order, the rule
\* emits on the last of them exactly when no key came more than T after the
\* key before it.
C14_TimeoutBreaksPrefix ==
    \A gen \in DOMAIN regs :
        LET q == regs[gen].sequence
            n == Len(q)
        IN  ( /\ Timed(gen)
              /\ Len(log) >= n
              /\ \A i \in 1..n : log[i].key = Pressed(q[i]) )
            => ( (gen \in log[n].emits)
                    <=> \A i \in 2..n : Gap(i) <= regs[gen].sequenceTimeoutMs )

\* The rule [A,B] with timeout 1: a at 0, b at 2; the rule with the timeout did
\* not emit, the rule without one did.
C14_Witness ==
    /\ regs[2].sequence = <<"A", "B">>
    /\ Len(log) = 2
    /\ log[1].key = "a" /\ log[1].time = 0
    /\ log[2].key = "b" /\ log[2].time = 2
    /\ log[2].emits = {1}

\* ------------------------------------------------ claims on event delivery

Emitters == {emitted[k].gen : k \in DOMAIN emitted}

IsRegistered(gen) == activeShortcuts[regs[gen].id] = gen

Subscribed(gen) == \E i \in DOMAIN subs : subs[i].gen = gen

Delivered == ~Idle /\ slot = Done

SameKindAndTrigger(a, b) ==
    /\ a.type = b.type
    /\ a.event = b.event
    /\ IF a.type = "combination" THEN a.keys = b.keys
       ELSE AreSequencesIdentical(a.sequence, b.sequence)

\* g is a non-strict global combination, e a combination with the same trigger
\* scoped to a context, both registered and subscribed, and no other rule has a
\* subscription
GlobalAndScopedPair(g, e) ==
    /\ IsRegistered(g) /\ IsRegistered(e)
    /\ regs[g].type = "combination"
    /\ SameKindAndTrigger(regs[g], regs[e])
    /\ regs[g].context = NULL /\ ~regs[g].strict
    /\ regs[e].context # NULL
    /\ Subscribed(g) /\ Subscribed(e)
    /\ \A i \in DOMAIN subs : subs[i].gen \in {g, e}

\* C1: with a non-strict global combination G and a combination E of the same
\* trigger scoped to c, both subscribed and no other rule involved, a matching
\* event makes E emit only in context c and G only in another context; once the
\* event has been delivered with the context unchanged during delivery, exactly E
\* has emitted when the resolved context is c, and exactly G otherwise.
C1_ScopedRuleWinsInItsContext ==
    \A g \in DOMAIN regs, e \in DOMAIN regs :
        (GlobalAndScopedPair(g, e) /\ ~Idle /\ ShortcutMatchesEvent(regs[g], ev)) =>
            /\ \A k \in DOMAIN emitted :
                    (emitted[k].gen = e) <=> (emitted[k].ctx = regs[e].context)
            /\ (Delivered /\ ~reentered) =>
                    Emitters = IF GetActiveContext = regs[e].context THEN {e} ELSE {g}

\* G was subscribed first, the context is "editor" through the stack, and only E
\* emitted.
C1_Witness ==
    /\ Delivered /\ ~reentered
    /\ Len(subs) = 2
    /\ GlobalAndScopedPair(subs[1].gen, subs[2].gen)
    /\ ShortcutMatchesEvent(regs[subs[1].gen], ev)
    /\ overrideContext = NO_OVERRIDE
    /\ GetActiveContext = "editor"
    /\ Emitters = {subs[2].gen}

\* C2: for one event, a registered global rule and a registered rule of the same
\* kind and trigger scoped to a context never both emit, also when a handler
\* changes the context while the event is being delivered.
C2_AtMostOneOfPairEmits ==
    \A k1 \in DOMAIN emitted, k2 \in DOMAIN emitted :
        LET g == emitted[k1].gen
            e == emitted[k2].gen
        IN ~ /\ IsRegistered(g) /\ IsRegistered(e)
             /\ SameKindAndTrigger(regs[g], regs[e])
             /\ regs[g].context = NULL
             /\ regs[e].context # NULL

\* C3: a strict global rule, combination or sequence, emits only when the
\* resolved context is null at that event.
C3_StrictGlobalOnlyWithoutContext ==
    \A k \in DOMAIN emitted :
        LET config == regs[emitted[k].gen] IN
        (config.context = NULL /\ config.strict) => emitted[k].ctx = NULL

\* A strict global combination is the only rule, its trigger was delivered in
\* context "modal", and it did not emit.
C3_Witness ==
    /\ Delivered /\ ~reentered
    /\ Len(regs) = 1
    /\ regs[1].type = "combination" /\ regs[1].context = NULL /\ regs[1].strict
    /\ Subscribed(1)
    /\ ShortcutMatchesEvent(regs[1], ev)
    /\ GetActiveContext = "modal"
    /\ emitted = <<>>

\* C4: a rule with a context c emits only when the resolved context, from the
\* stack top or from an override, is c at the moment it processes the event.
C4_ScopedRuleOnlyInItsContext ==
    \A k \in DOMAIN emitted :
        LET config == regs[emitted[k].gen] IN
        config.context # NULL => emitted[k].ctx = config.context

\* The stack top is "editor", the override is "modal", the trigger of a rule
\* scoped to "editor" was delivered to its subscription, and it did not emit.
C4_Witness ==
    /\ Delivered /\ ~reentered
    /\ Last(contextStack) = "editor"
    /\ overrideContext = "modal"
    /\ \E i \in DOMAIN subs :
            /\ regs[subs[i].gen].context = "editor"
            /\ regs[subs[i].gen].type = "combination"
            /\ ShortcutMatchesEvent(regs[subs[i].gen], ev)
    /\ emitted = <<>>

\* the subscription at the delivery position belongs to a non-strict global
\* sequence rule, and the event being delivered completes its token list
GlobalSequenceCompletes ==
    /\ ~Idle /\ slot # Done
    /\ LET sub == subs[slot.sub]
           config == regs[sub.gen]
       IN  /\ config.type = "sequence"
           /\ config.context = NULL /\ ~config.strict
           /\ IF config.sequenceTimeoutMs > 0
              THEN SequenceScan(sub.scan, ev, config.sequence,
                                config.sequenceTimeoutMs, now).emitState = "Emit"
              ELSE BufferMatches(sub.buffer, ev, config.sequence)

\* another registered sequence rule has context c and the same token list
IdenticalSequenceIn(c, config) ==
    \E id \in Ids :
        /\ activeShortcuts[id] # 0
        /\ id # config.id
        /\ regs[activeShortcuts[id]].type = "sequence"
        /\ regs[activeShortcuts[id]].context = c
        /\ regs[activeShortcuts[id]].sequence = config.sequence

\* C15: when a non-strict global sequence rule completes while the resolved
\* context is a non-null c, it is suppressed exactly when another registered
\* sequence rule has context c and the same ordered token list.
C15_GlobalSequenceSuppressedIffIdentical ==
    [][ (Deliver /\ GlobalSequenceCompletes /\ GetActiveContext # NULL)
            => ( (emitted' = emitted)
                    <=> IdenticalSequenceIn(GetActiveContext, regs[subs[slot.sub].gen]) ) ]_vars

\* In context "editor" the global rule [G,I] and the rule [I] of "editor" both
\* emitted on the same event.
C15_Witness ==
    /\ Delivered
    /\ GetActiveContext = "editor"
    /\ \E k1 \in DOMAIN emitted, k2 \in DOMAIN emitted :
            /\ regs[emitted[k1].gen].type = "sequence"
            /\ regs[emitted[k1].gen].context = NULL
            /\ regs[emitted[k1].gen].sequence = <<"G", "I">>
            /\ regs[emitted[k2].gen].type = "sequence"
            /\ regs[emitted[k2].gen].context = "editor"
            /\ regs[emitted[k2].gen].sequence = <<"I">>

\* ---------------------------------------------- claims on combination rules

\* the single trigger of the rule of SpecKeys, when it has one
TheTrigger == regs[1].keys[1]

Modifiers == {"ctrlKey", "altKey", "shiftKey", "metaKey"}

\* the requirements set on a trigger (a shorthand trigger sets none)
SetRequirements(t) ==
    IF IsString(t) THEN {} ELSE {m \in Modifiers : t[m] # UNDEFINED}

RuleEmitted == emitted # <<>>

\* C16: a trigger with no modifier requirement set, in shorthand or in object
\* form, matches an event exactly when the key matches and the event's four
\* modifier flags are all false.
C16_NoModifierMeansNone ==
    (Delivered /\ Len(regs[1].keys) = 1 /\ SetRequirements(TheTrigger) = {})
        => ( RuleEmitted <=> (ev.key = "s" /\ \A m \in Modifiers : ~ev[m]) )

\* The object trigger {key: S} received s with ctrl pressed and did not emit.
C16_Witness ==
    /\ Delivered
    /\ regs[1].keys = <<TriggerWith("S", UNDEFINED, UNDEFINED, UNDEFINED, UNDEFINED)>>
    /\ ev.key = "s" /\ ev.ctrlKey /\ ~ev.altKey /\ ~ev.shiftKey /\ ~ev.metaKey
    /\ ~RuleEmitted

\* C17: a trigger with at least one modifier requirement set matches an event
\* exactly when the key matches and every requirement that is set equals the
\* event's flag; the modifiers left unset never prevent a match.
C17_UnsetModifiersAreDontCare ==
    (Delivered /\ Len(regs[1].keys) = 1 /\ SetRequirements(TheTrigger) # {})
        => ( RuleEmitted
                <=> ( /\ ev.key = "s"
                      /\ \A m \in SetRequirements(TheTrigger) :
                            ev[m] = (TheTrigger[m] = YES) ) )

\* C18: for one event a subscriber of a combination rule receives at most one
\* emission, however many alternatives of the rule match the event.
C18_OneEmissionPerEvent ==
    \A k1 \in DOMAIN emitted, k2 \in DOMAIN emitted :
        (emitted[k1].sub = emitted[k2].sub) => (k1 = k2)

\* ------------------------------------------------- claims on the registry

Count(seq, x) == Cardinality({k \in DOMAIN seq : seq[k] = x})

Registering == lastCall.op \in {"addCombination", "addSequence"} /\ lastCall.ret # EMPTY

\* the previous rule's stream has completed for the subscribers it had
PreviousStreamCompleted ==
    \A g \in overwritten :
        /\ g \in terminated
        /\ \A i \in DOMAIN subs : subs[i].gen = g => ~subs[i].armed

\* the registry holds one entry for the id just registered: the new registration
RegistryHoldsNewRule ==
    Registering =>
        /\ activeShortcuts[lastCall.arg.id] = Len(regs)
        /\ regs[Len(regs)] = lastCall.arg
        /\ regs[Len(regs)].type = (IF lastCall.op = "addSequence" THEN "sequence"
                                                                  ELSE "combination")

\* C19: registering a rule with an id already in the registry completes the
\* previous rule's stream before the new rule can emit, the previous stream never
\* emits afterwards, and the registry then holds exactly one entry for that id,
\* carrying the new rule's configuration and kind.
C19_OverwriteTerminatesPreviousStream ==
    /\ PreviousStreamCompleted
    /\ \A k \in DOMAIN emitted : emitted[k].gen \notin overwritten
    /\ RegistryHoldsNewRule

\* remove(id) returns true for a registered id, false on the next call for it
RemoveReturnsTrueThenFalse ==
    lastCall.op = "remove" =>
        /\ activeShortcuts[lastCall.arg] = 0
        /\ (prevCall.op = "remove" /\ prevCall.arg = lastCall.arg) => lastCall.ret = FALSE
        /\ (/\ prevCall.op \in {"addCombination", "addSequence"}
            /\ prevCall.ret # EMPTY
            /\ prevCall.arg.id = lastCall.arg) => lastCall.ret = TRUE

\* the registrations remove(id) ended
Removed == terminated \ (overwritten \cup destroyedRules)

\* C20: remove(id) returns true for a registered id and false on every later
\* call for that id until it is registered again, and each subscriber of the
\* removed rule's stream receives the completion notification exactly once.
C20_RemoveIsIdempotentAndCompletesOnce ==
    /\ RemoveReturnsTrueThenFalse
    /\ \A g \in Removed : Count(completions, g) = Count(subscribed, g)


\* no stream of a rule that destroy() ended emits
NoEmissionAfterDestroy == \A k \in DOMAIN emitted : emitted[k].gen \notin destroyedRules

\* C21: after remove(id) has returned true, or destroy() has returned, no later
\* key-press event produces an emission on the stream the registration of that
\* rule returned, for every subscriber of that stream, whenever it subscribed.
C21_NoEmissionAfterRemoveOrDestroy ==
    \A k \in DOMAIN emitted : emitted[k].gen \notin (Removed \cup destroyedRules)

\* C22: destroy() completes the stream of every rule registered at that moment
\* and leaves the registry empty: afterwards hasShortcut(id) is false for every
\* id and getActiveShortcuts() is empty.
C22_DestroyCompletesAllAndEmptiesRegistry ==
    [][CallDestroy =>
        /\ \A id \in Ids : HasShortcut(id) =>
                LET g == activeShortcuts[id] IN
                /\ g \in terminated'
                /\ Count(completions', g) = Count(subscribed, g)
                /\ \A i \in DOMAIN subs' : subs'[i].gen # g
        /\ \A id \in Ids : ~HasShortcut(id)'
        /\ GetActiveShortcuts' = {}]_vars

\* destroy() has just ended two registered rules, one of them subscribed to
C22_Witness ==
    /\ lastCall.op = "destroy"
    /\ Cardinality(destroyedRules) = 2
    /\ \E g \in destroyedRules : Count(completions, g) >= 1
    /\ \E g \in destroyedRules : Count(completions, g) = 0 /\ Count(subscribed, g) = 0

\* The latest successful registration of an id (0: none)
LatestRegistration(id) ==
    LET of == {g \in DOMAIN regs : regs[g].id = id} IN
    IF of = {} THEN 0 ELSE CHOOSE g \in of : \A h \in of : h <= g

\* the ids whose latest successful registration has not been removed or destroyed
LiveIds == {id \in Ids : LatestRegistration(id) # 0 /\ LatestRegistration(id) \notin terminated}

\* C24: after any sequence of registrations, removals and destroy, the registry
\* holds at most one entry per id; hasShortcut(id) is true exactly for the ids
\* whose latest successful registration has not been removed or destroyed, and
\* getActiveShortcuts() lists exactly those ids, each once, with the context,
\* description and kind of that latest registration.
C24_RegistryMatchesLatestRegistrations ==
    /\ \A id \in Ids : HasShortcut(id) <=> id \in LiveIds
    /\ \A id \in Ids : Cardinality({e \in GetActiveShortcuts : e.id = id}) <= 1
    /\ GetActiveShortcuts =
            {[type |-> regs[LatestRegistration(id)].type, id |-> id,
              context |-> regs[LatestRegistration(id)].context,
              description |-> Description(regs[LatestRegistration(id)])] : id \in LiveIds}

\* an id registered as a combination, removed, registered again as a sequence
\* with another description
C24_Witness ==
    /\ HasShortcut("global") /\ ~HasShortcut("scoped")
    /\ LatestRegistration("global") = 2
    /\ regs[1].id = "global" /\ regs[1].type # regs[2].type
    /\ \E e \in GetActiveShortcuts : e.type = "sequence" /\ e.description = "Insert"

\* A configuration with an empty trigger list, an empty or missing key token in
\* some alternative, an empty sequence, or an invalid key in its sequence.
FailsValidation(config) ==
    IF config.type = "combination"
    THEN \/ Len(config.keys) = 0
         \/ \E k \in DOMAIN config.keys :
                IF IsString(config.keys[k]) THEN config.keys[k].shorthand = ""
                ELSE config.keys[k].key \in {"", UNDEFINED, NULL}
    ELSE \/ Len(config.sequence) = 0
         \/ \E k \in DOMAIN config.sequence : config.sequence[k] \in {"", UNDEFINED, NULL}

\* hasShortcut(id) once the call has returned
HasShortcutAfter(id) == activeShortcuts'[id] # 0

FailedRegistration == (CallAddCombination \/ CallAddSequence) /\ FailsValidation(lastCall'.arg)

\* C23, as stated: a registration that fails validation returns a stream that
\* never emits and does not enter the registry, so hasShortcut(id) is false for
\* the id of such a registration.
C23_FailedRegistrationHasNoShortcut ==
    [][FailedRegistration =>
        /\ lastCall'.ret = EMPTY
        /\ UNCHANGED <<regs, activeShortcuts, terminated, subs>>
        /\ ~HasShortcutAfter(lastCall'.arg.id)]_vars

\* C23, amended: a registration that fails validation returns a stream that never
\* emits and leaves the registry as it was, so hasShortcut(id) is what it was
\* before the call: false unless an earlier registration of the id is still
\* registered.
C23_FailedRegistrationLeavesRegistry ==
    [][FailedRegistration =>
        /\ lastCall'.ret = EMPTY
        /\ UNCHANGED <<regs, activeShortcuts, terminated, subs>>
        /\ HasShortcutAfter(lastCall'.arg.id) = HasShortcut(lastCall'.arg.id)]_vars

\* a registration failed validation under an id that is registered, and another
\* one before it under an id that is not
C23_Witness ==
    /\ lastCall.op \in {"addCombination", "addSequence"}
    /\ FailsValidation(lastCall.arg) /\ lastCall.ret = EMPTY
    /\ HasShortcut(lastCall.arg.id)
    /\ prevCall.op \in {"addCombination", "addSequence"}
    /\ FailsValidation(prevCall.arg) /\ prevCall.ret = EMPTY
    /\ ~HasShortcut(prevCall.arg.id)

\* ------------------------------------------- claims on failing handlers

\* the subscriptions whose rule has an alternative the event satisfies
Matching(event) ==
    {i \in DOMAIN subs :
        \E t \in DOMAIN ConfigOf(i).keys :
            TriggerMatches(ParseKeyTrigger(ConfigOf(i).keys[t]), event)}

Received == {emitted[k].sub : k \in DOMAIN emitted}

C26_OneListenerPerTargetAndType == \A type \in EventTypes : listeners[type] <= 1

\* two rules on keydown are registered, both streams are subscribed to, and one
\* listener is attached
C26_Witness ==
    /\ HasShortcut("global") /\ HasShortcut("scoped")
    /\ {subs[i].gen : i \in DOMAIN subs} = {activeShortcuts["global"], activeShortcuts["scoped"]}
    /\ RefCount("keydown", subs) = 2
    /\ listeners["keydown"] = 1

\* --------------------------------------------- claims on the key matcher

\* the letters of the menus, in upper and in lower case
Letters == {{"A", "a"}, {"G", "g"}, {"I", "i"}}

OneCharacter(k) == \E l \in Letters : k \in l

SameIgnoringCase(a, b) == \E l \in Letters : a \in l /\ b \in l

TheToken == regs[1].keys[1].key

\* C27: the key matcher compares case-insensitively exactly when both the event
\* key and the configured token are one character long, and otherwise requires
\* exact string equality: token "A" matches event key "a", and token "Escape"
\* does not match event key "escape".
C27_CompareKey ==
    Delivered =>
        ( (emitted # <<>>) <=>
            IF OneCharacter(ev.key) /\ OneCharacter(TheToken)
            THEN SameIgnoringCase(ev.key, TheToken)
            ELSE ev.key = TheToken )

\* token "A" has met event key "a" and the rule emitted
C27_Witness == Delivered /\ TheToken = "A" /\ ev.key = "a" /\ emitted # <<>>

\* token "Escape" has met event key "escape" and the rule did not emit
C27_WitnessEscape == Delivered /\ TheToken = "Escape" /\ ev.key = "escape" /\ emitted = <<>>

\* -------------------------------------- claims on the timeout of a sequence

\* the prefix a subscription of a rule with a timeout holds has timed out
TimedOut(sub) ==
    /\ sub.scan.emitState # "Emit"
    /\ Len(sub.scan.matchedEvents) > 0
    /\ now - sub.scan.lastEventTime > regs[sub.gen].sequenceTimeoutMs

\* C28: when the timeout of a sequence rule has been exceeded, nothing is reset
\* until the next gated event arrives; that event first resets progress and is
\* then evaluated normally: if it matches the first token it starts a new prefix
\* of length 1, otherwise progress stays empty. So [A,B] with a at 0, a after
\* more than the timeout, b within the timeout emits.
C28_TimedOutEventIsEvaluatedAfresh ==
    /\ [][ /\ Tick => subs' = subs
           /\ ( /\ Deliver
                /\ Timed(subs[slot.sub].gen)
                /\ TimedOut(subs[slot.sub]) )
                => subs'[slot.sub].scan.matchedEvents =
                        IF ev.key = Pressed(regs[subs[slot.sub].gen].sequence[1])
                        THEN <<ev>> ELSE <<>> ]_vars
    /\ [] \A gen \in DOMAIN regs :
            ( /\ Timed(gen)
              /\ regs[gen].sequence = <<"A", "B">>
              /\ LogKeys = <<"a", "a", "b">>
              /\ Gap(2) > regs[gen].sequenceTimeoutMs
              /\ Gap(3) <= regs[gen].sequenceTimeoutMs )
            => gen \in log[3].emits

\* The rule [A,B] with timeout 1: a at 0, a at 2, b at 2; the rule emitted on b.
C28_Witness ==
    /\ regs[2].sequence = <<"A", "B">>
    /\ LogKeys = <<"a", "a", "b">>
    /\ [i \in DOMAIN log |-> log[i].time] = <<0, 2, 2>>
    /\ 2 \in log[3].emits

\* ------------------------------------ claims on what a sequence emits on

\* the n events ending with event j match the tokens of registration gen
\* position by position, and with a timeout no gap between two of them exceeds it
WindowMatches(gen, j) ==
    LET q == regs[gen].sequence
        n == Len(q)
    IN  /\ j >= n
        /\ \A i \in 1..n : log[j - n + i].key = Pressed(q[i])
        /\ Timed(gen) => \A i \in 2..n : Gap(j - n + i) <= regs[gen].sequenceTimeoutMs

\* C29: a sequence rule of length N emits on an event only if the N most recent
\* events that passed its context gate, ending with that event, match its N
\* tokens position by position (and, with a timeout, no gap between consecutive
\* ones exceeded it); it never emits when a non-matching gated event lies
\* between the matched keys.
C29_EmitsOnlyOnMatchingWindow ==
    \A gen \in DOMAIN regs :
        \A j \in DOMAIN log : gen \in log[j].emits => WindowMatches(gen, j)

\* The rule [A,B]: a, x, b did not make it emit, the a, b that followed did,
\* without and with the timeout.
C29_Witness ==
    /\ regs[1].sequence = <<"A", "B">>
    /\ LogKeys = <<"a", "x", "b", "a", "b">>
    /\ [i \in DOMAIN log |-> log[i].emits] = <<{}, {}, {}, {}, {1, 2}>>

\* no event of the window ending with event j was part of a match registration
\* gen emitted before
FreshWindow(gen, j) ==
    \A i \in DOMAIN log : (j - Len(regs[gen].sequence) < i /\ i < j) => gen \notin log[i].emits

\* C30: if the N most recent gated events match a sequence rule's N tokens in
\* order, no gap between them exceeds the timeout, and none of them belonged to
\* a match the rule already emitted, then the rule emits on the last of them,
\* whatever gated events preceded them (for example [A,A,B] emits on the final
\* event of A,A,A,B).
C30_EmitsOnEveryFreshMatchingWindow ==
    \A gen \in DOMAIN regs :
        \A j \in DOMAIN log :
            (WindowMatches(gen, j) /\ FreshWindow(gen, j)) => gen \in log[j].emits

\* the rules without a timeout do emit on every fresh matching window
UntimedEmitsOnEveryFreshMatchingWindow ==
    \A gen \in DOMAIN regs :
        \A j \in DOMAIN log :
            (~Timed(gen) /\ WindowMatches(gen, j) /\ FreshWindow(gen, j)) => gen \in log[j].emits

\* ------------------------------------ timed against untimed sequence rules

\* no gap between consecutive logged events up to event j exceeds the timeout
NoGapExceeds(j) == \A i \in 2..j : Gap(i) <= SeqTimeout

\* C31: for every token list and every stream of gated events in which no gap
\* between consecutive events exceeds the timeout, a sequence rule registered
\* with a timeout emits on exactly the same events as the same rule registered
\* without a timeout.
C31_TimedEmitsAsUntimed ==
    \A j \in DOMAIN log :
        NoGapExceeds(j) => ((1 \in log[j].emits) <=> (2 \in log[j].emits))

\* what does hold: within the timeout the rule with a timeout emits only on
\* events the rule without a timeout emits on
TimedEmitsOnlyWhereUntimedDoes ==
    \A j \in DOMAIN log : 2 \in log[j].emits => 1 \in log[j].emits

\* ------------------- SpecGate: sequence rules while the context changes

\* Bound of SpecGate: the number of events dispatched.
MaxGateEvents == 3

GateKeyMenu == {"g", "i", "x"}

\* the timeouts a rule of SpecGate is registered with: none, or SeqTimeout
GateTimeouts == {0, SeqTimeout}

\* new Hotkeys(); addSequence of [G,I] as a non-strict global rule and as a rule
\* of context "editor", each without or with a timeout; one subscriber on each
\* returned stream
InitGate ==
    /\ initialContext = NULL
    /\ contextStack = <<initialContext>>
    /\ overrideContext = NO_OVERRIDE
    /\ restoreFns = <<>>
    /\ overrideSetBy = 0
    /\ lastCall = NoCall
    /\ prevCall = NoCall
    /\ \E t1 \in GateTimeouts, t2 \in GateTimeouts :
            regs = <<SequenceConfig("global", <<"G", "I">>, t1, NULL, FALSE, "keydown"),
                     SequenceConfig("scoped", <<"G", "I">>, t2, "editor", FALSE, "keydown")>>
    /\ activeShortcuts = [id \in Ids |-> CASE id = "global" -> 1 [] id = "scoped" -> 2 [] OTHER -> 0]
    /\ terminated = {}
    /\ stackStopped = FALSE
    /\ destroyedRules = {}
    /\ subs = <<Subscription(1), Subscription(2)>>
    /\ now = 0
    /\ ev = NoEvent
    /\ slot = Done
    /\ emitted = <<>>
    /\ handlerActive = FALSE
    /\ reentered = FALSE
    /\ observers = <<>>
    /\ log = <<>>
    /\ failed = {}
    /\ NoProvider
    /\ completions = <<>>
    /\ overwritten = {}
    /\ subscribed = [k \in DOMAIN subs |-> subs[k].gen]
    /\ listeners = [type \in EventTypes |-> IF RefCount(type, subs) > 0 THEN 1 ELSE 0]

\* the application enters context "editor" between two events
EnterEditor ==
    /\ Idle
    /\ Len(contextStack) < MaxDepth
    /\ EnterContext("editor")
    /\ UNCHANGED <<histVars, regVars, now, evVars>>

\* the application leaves it between two events
LeaveEditor ==
    /\ Idle
    /\ Len(contextStack) > 1
    /\ LeaveContext
    /\ UNCHANGED <<histVars, regVars, now, evVars>>

\* a key is pressed
DispatchGateKey ==
    \E key \in GateKeyMenu :
        /\ Len(log) < MaxGateEvents
        /\ DispatchEvent(KeyEvent("keydown", key, FALSE))

\* dispatchEvent returns; the history keeps the key, its time, the context that
\* was active and the registrations whose stream emitted on it
EndDispatchInContext ==
    /\ ~Idle
    /\ slot = Done
    /\ ev' = NoEvent
    /\ emitted' = <<>>
    /\ handlerActive' = FALSE
    /\ reentered' = FALSE
    /\ log' = Append(log, [key |-> ev.key, ctx |-> GetActiveContext,
                           emits |-> {emitted[k].gen : k \in DOMAIN emitted},
                           time |-> now])
    /\ UNCHANGED <<ctxState, histVars, regVars, subs, now, slot, failed, reactVars>>

NextGate ==
    \/ EnterEditor
    \/ LeaveEditor
    \/ Tick
    \/ DispatchGateKey
    \/ Deliver
    \/ EndDispatchInContext

SpecGate == InitGate /\ [][NextGate]_vars

\* ---------------------------- claims on sequences and the context gate

\* the events that passed the gate of the rule of context "editor"
GatedEvents == {j \in DOMAIN log : log[j].ctx = "editor"}

\* the latest gated event before event j (0: none)
PrevGated(j) ==
    IF \E p \in GatedEvents : p < j
    THEN CHOOSE p \in GatedEvents : p < j /\ \A r \in GatedEvents : r < j => r <= p
    ELSE 0

\* event j is an I pressed in the rule's context, the gated event before it a G,
\* no more than the rule's timeout (if any) earlier
CompletesInContext(j) ==
    /\ j \in GatedEvents
    /\ log[j].key = "i"
    /\ PrevGated(j) # 0
    /\ log[PrevGated(j)].key = "g"
    /\ Timed(2) => log[j].time - log[PrevGated(j)].time <= regs[2].sequenceTimeoutMs

\* C32: key presses that fail a sequence rule's context gate neither advance
\* nor reset its progress: the rule [G,I] of context "editor" emits on an event
\* exactly when that event is an I pressed in the context and the latest event
\* before it that was pressed in the context is a G (within the timeout, if
\* any), whatever was pressed in between while the context was not active.
C32_UngatedKeysLeaveProgress ==
    \A j \in DOMAIN log : (2 \in log[j].emits) <=> CompletesInContext(j)

\* G in the context, the context left, X, the context entered again, I: the rule
\* with a timeout emits on I.
C32_Witness ==
    /\ Timed(2)
    /\ LogKeys = <<"g", "x", "i">>
    /\ [j \in DOMAIN log |-> log[j].ctx] = <<"editor", NULL, "editor">>
    /\ 2 \in log[3].emits

\* the event being delivered completes the sequence of subscription i (it
\* passes the context gate and the matcher emits on it)
CompletesSequence(i) ==
    LET sub == subs[i]
        config == ConfigOf(i)
    IN  /\ config.type = "sequence"
        /\ sub.hasCtx
        /\ FilterByContext(config.context, config.strict, sub.activeCtx)
        /\ IF config.sequenceTimeoutMs > 0
           THEN SequenceScan(sub.scan, ev, config.sequence,
                             config.sequenceTimeoutMs, now).emitState = "Emit"
           ELSE BufferMatches(sub.buffer, ev, config.sequence)

\* the event has reached subscription i of a non-strict global sequence rule,
\* completes its sequence and is held back by the priority filter
GlobalSequenceSuppressed(i) ==
    /\ ~Idle
    /\ slot # Done
    /\ slot.sub = i
    /\ ConfigOf(i).context = NULL
    /\ ~ConfigOf(i).strict
    /\ CompletesSequence(i)
    /\ ~SequencePriority(ConfigOf(i), subs[i].activeCtx)

\* subscription k emits on the event being delivered: it has, or it will when
\* the event reaches it
EmitsOnThisEvent(k) ==
    IF slot # Done /\ k > slot.sub
    THEN Emits(k, 1, ev)
    ELSE \E e \in DOMAIN emitted : emitted[e].sub = k

\* C33: whenever a non-strict global sequence rule completes on an event and is
\* suppressed by the priority filter, the context-specific sequence rule with
\* the identical token list emits on that same event, including when the
\* context became active only part-way through the key sequence.
C33_SuppressedSequenceIsTakenOver ==
    \A i \in DOMAIN subs :
        GlobalSequenceSuppressed(i) =>
            \E k \in DOMAIN subs :
                /\ ConfigOf(k).type = "sequence"
                /\ ConfigOf(k).context = subs[i].activeCtx
                /\ AreSequencesIdentical(ConfigOf(i).sequence, ConfigOf(k).sequence)
                /\ EmitsOnThisEvent(k)

\* what does hold: when all the keys of the sequence were pressed in the
\* context, the context-specific rule takes the suppressed sequence over
SuppressedSequenceTypedInContextIsTakenOver ==
    \A i \in DOMAIN subs :
        (/\ GlobalSequenceSuppressed(i)
         /\ Len(log) > 0
         /\ log[Len(log)].ctx = "editor"
         /\ log[Len(log)].key = "g"
         /\ Timed(2) => now - log[Len(log)].time <= regs[2].sequenceTimeoutMs)
        => EmitsOnThisEvent(2)

\* ------------- SpecPrio: a global rule and the rules that take priority

\* Bounds of SpecPrio: the registrations made and the events dispatched.
MaxPrioRegs == 3
MaxPrioEvents == 2

\* the global rule: a combination or a sequence, not strict
GlobalRuleMenu ==
    {Preventing(CombinationConfig("global", <<CtrlG>>, NULL, FALSE, "keydown")),
     Preventing(SequenceConfig("global", <<"G", "I">>, 0, NULL, FALSE, "keydown"))}

\* the rules registered as "scoped": the global rule's trigger or another one,
\* in context "editor" or "modal", on keydown or keyup
ScopedRuleConfigs ==
    {CombinationConfig("scoped", <<CtrlG>>, "editor", FALSE, "keydown"),
     CombinationConfig("scoped", <<CtrlG>>, "editor", FALSE, "keyup"),
     CombinationConfig("scoped", <<PlainI>>, "editor", FALSE, "keydown"),
     CombinationConfig("scoped", <<CtrlG>>, "modal", FALSE, "keydown"),
     SequenceConfig("scoped", <<"G", "I">>, 0, "editor", FALSE, "keydown"),
     SequenceConfig("scoped", <<"I">>, 0, "editor", FALSE, "keydown")}

\* all of them with preventDefault: true
ScopedRuleMenu == {Preventing(c) : c \in ScopedRuleConfigs}

PrioEventMenu ==
    {KeyEvent("keydown", "g", TRUE), KeyEvent("keydown", "i", FALSE)}

\* new Hotkeys(initialContext); the global rule registered and subscribed to
InitPrio ==
    /\ initialContext \in {NULL, "editor"}
    /\ contextStack = <<initialContext>>
    /\ overrideContext = NO_OVERRIDE
    /\ restoreFns = <<>>
    /\ overrideSetBy = 0
    /\ lastCall = NoCall
    /\ prevCall = NoCall
    /\ \E config \in GlobalRuleMenu : regs = <<config>>
    /\ activeShortcuts = [id \in Ids |-> IF id = "global" THEN 1 ELSE 0]
    /\ terminated = {}
    /\ stackStopped = FALSE
    /\ destroyedRules = {}
    /\ subs = <<Subscription(1)>>
    /\ now = 0
    /\ ev = NoEvent
    /\ slot = Done
    /\ emitted = <<>>
    /\ handlerActive = FALSE
    /\ reentered = FALSE
    /\ observers = <<>>
    /\ log = <<>>
    /\ failed = {}
    /\ NoProvider
    /\ completions = <<>>
    /\ overwritten = {}
    /\ subscribed = [k \in DOMAIN subs |-> subs[k].gen]
    /\ listeners = [type \in EventTypes |-> IF RefCount(type, subs) > 0 THEN 1 ELSE 0]

\* addCombination or addSequence of a rule "scoped"
AddScoped ==
    \E config \in ScopedRuleMenu :
        /\ Idle
        /\ Len(regs) < MaxPrioRegs
        /\ IF config.type = "combination" THEN AddCombination(config) ELSE AddSequence(config)
        /\ UNCHANGED <<ctxState, histVars, now, evVars>>

\* remove("scoped")
RemoveScoped ==
    /\ Idle
    /\ Remove("scoped")
    /\ UNCHANGED <<ctxState, histVars, now, evVars>>

\* stream.subscribe(handler), on the stream the registered rule "scoped" returned
SubscribeScoped ==
    LET gen == activeShortcuts["scoped"] IN
    /\ Idle
    /\ gen # 0
    /\ Len(subs) < MaxSubs
    /\ subs' = Append(subs, Subscription(gen))
    /\ subscribed' = Append(subscribed, gen)
    /\ listeners' = Attached(Append(subs, Subscription(gen)))
    /\ UNCHANGED <<ctxState, histVars, regs, activeShortcuts, terminated, completions,
                   overwritten, stackStopped, destroyedRules, now, evVars>>

\* a key event on document
DispatchPrio ==
    \E event \in PrioEventMenu :
        /\ Len(log) < MaxPrioEvents
        /\ DispatchEvent(event)

\* dispatchEvent returns; the history keeps the event, the context and the
\* registry it was processed with, which registered rules had a subscriber, and
\* the registrations whose stream emitted
EndDispatchRecorded ==
    /\ ~Idle
    /\ slot = Done
    /\ ev' = NoEvent
    /\ emitted' = <<>>
    /\ handlerActive' = FALSE
    /\ reentered' = FALSE
    /\ log' = Append(log, [key |-> ev.key, event |-> ev, ctx |-> GetActiveContext,
                           emits |-> {emitted[k].gen : k \in DOMAIN emitted}, time |-> now,
                           registry |-> activeShortcuts,
                           subscribers |-> [id \in Ids |-> \E k \in DOMAIN subs :
                                                subs[k].gen = activeShortcuts[id]]])
    /\ UNCHANGED <<ctxState, histVars, regVars, subs, now, slot, failed, reactVars>>

NextPrio ==
    \/ AddScoped
    \/ RemoveScoped
    \/ SubscribeScoped
    \/ DispatchPrio
    \/ Deliver
    \/ EndDispatchRecorded

SpecPrio == InitPrio /\ [][NextPrio]_vars

\* --------------------------------------- claims on the priority filter

\* logged event j matches the trigger of the global combination rule (registration
\* 1, always subscribed to), which did not emit on it: the priority filter is the
\* one stage of its stream that can have held the event back
GlobalCombinationSuppressed(j) ==
    /\ regs[1].type = "combination"
    /\ log[j].event.type = regs[1].event
    /\ ShortcutMatchesEvent(regs[1], log[j].event)
    /\ 1 \notin log[j].emits

\* C34: whenever a non-strict global combination rule is suppressed for an event
\* by the priority filter, some context-specific combination rule whose trigger
\* matches that event emits for it, whatever the target, event type or
\* subscription state of the context-specific rule.
C34_SuppressedCombinationIsTakenOver ==
    \A j \in DOMAIN log :
        GlobalCombinationSuppressed(j) =>
            \E gen \in log[j].emits :
                /\ regs[gen].type = "combination"
                /\ regs[gen].context = log[j].ctx
                /\ ShortcutMatchesEvent(regs[gen], log[j].event)

\* the same, of the events for which the suppressing rule listens on the event's
\* type and had a subscriber
SuppressedCombinationTakenOverWhenListening ==
    \A j \in DOMAIN log :
        (/\ GlobalCombinationSuppressed(j)
         /\ regs[log[j].registry["scoped"]].event = log[j].event.type
         /\ log[j].subscribers["scoped"])
        => log[j].registry["scoped"] \in log[j].emits

\* logged event j passes the matcher of the global rule (registration 1): it
\* matches the combination's trigger, or it ends a window of keys that matches
\* the sequence's tokens (every event of SpecPrio passes the global rule's gate)
GlobalMatcherPasses(j) ==
    IF regs[1].type = "combination"
    THEN log[j].event.type = regs[1].event /\ ShortcutMatchesEvent(regs[1], log[j].event)
    ELSE LET n == Len(regs[1].sequence) IN
         /\ j >= n
         /\ \A i \in 1..n : CompareKey(log[j - n + i].key, regs[1].sequence[i])

\* the registry logged event j was processed with holds a rule of the kind of the
\* global rule, of the context active then, with the global rule's trigger
SuppressorRegistered(j) ==
    LET gen == log[j].registry["scoped"] IN
    /\ gen # 0
    /\ log[j].ctx # NULL
    /\ regs[gen].type = regs[1].type
    /\ regs[gen].context = log[j].ctx
    /\ IF regs[1].type = "combination"
       THEN ShortcutMatchesEvent(regs[gen], log[j].event)
       ELSE AreSequencesIdentical(regs[1].sequence, regs[gen].sequence)

\* C35: the priority filter consults the registry as it is when the event is
\* processed: the global rule emits on an event that passes its matcher exactly
\* when the registry then holds no rule of the active context with its trigger,
\* whatever was registered, overwritten or removed before.
C35_PriorityUsesCurrentRegistry ==
    \A j \in DOMAIN log :
        GlobalMatcherPasses(j) => ((1 \in log[j].emits) <=> ~SuppressorRegistered(j))

\* The global rule was suppressed on an event, the suppressing rule was removed,
\* and the global rule emitted on the next matching event.
C35_Witness ==
    /\ Len(log) = 2
    /\ GlobalMatcherPasses(1) /\ SuppressorRegistered(1) /\ 1 \notin log[1].emits
    /\ GlobalMatcherPasses(2) /\ log[2].registry["scoped"] = 0 /\ 1 \in log[2].emits

\* The same after the suppressing rule was overwritten by a rule with another
\* trigger or another context.
C35_WitnessOverwritten ==
    /\ Len(log) = 2
    /\ GlobalMatcherPasses(1) /\ SuppressorRegistered(1) /\ 1 \notin log[1].emits
    /\ GlobalMatcherPasses(2) /\ log[2].registry["scoped"] # 0 /\ 1 \in log[2].emits

\* The global rule emitted on an event, a suppressing rule was registered, and
\* the global rule was suppressed on the next matching event.
C35_WitnessRegistered ==
    /\ Len(log) = 2
    /\ GlobalMatcherPasses(1) /\ log[1].ctx # NULL /\ 1 \in log[1].emits
    /\ GlobalMatcherPasses(2) /\ SuppressorRegistered(2) /\ 1 \notin log[2].emits

\* ------------------------------- claims on what a failed registration leaves

\* the latest call was a registration that failed validation, under an id that
\* is registered
FailedOverRegistered ==
    /\ lastCall.op \in {"addCombination", "addSequence"}
    /\ FailsValidation(lastCall.arg)
    /\ HasShortcut(lastCall.arg.id)

\* the event being delivered passes the context gate and the matcher of
\* registration gen (a combination, or a sequence of one token)
RuleTakes(gen) ==
    /\ regs[gen].event = ev.type
    /\ FilterByContext(regs[gen].context, regs[gen].strict, GetActiveContext)
    /\ IF regs[gen].type = "combination"
       THEN ShortcutMatchesEvent(regs[gen], ev)
       ELSE Len(regs[gen].sequence) = 1 /\ CompareKey(ev.key, regs[gen].sequence[1])

\* after a failed registration under a registered id, an event the earlier rule
\* takes has reached every subscriber: the rule's stream emitted if it has one
EarlierRuleStillEmits ==
    (FailedOverRegistered /\ ~Idle /\ slot = Done) =>
        LET gen == activeShortcuts[lastCall.arg.id] IN
        (RuleTakes(gen) /\ \E k \in DOMAIN subs : subs[k].gen = gen /\ subs[k].hasCtx)
            => \E e \in DOMAIN emitted : emitted[e].gen = gen

\* C36: a registration that fails validation leaves the registry and every
\* existing stream unchanged: in particular, when the id is already registered,
\* the earlier rule stays in the registry, its stream is not completed, and it
\* keeps emitting for later matching events.
C36_FailedRegistrationChangesNothing ==
    /\ [][FailedRegistration => UNCHANGED <<regVars, subs>>]_vars
    /\ []EarlierRuleStillEmits

\* A registration failed under a registered id, and the earlier rule emitted on
\* the matching event that followed.
C36_Witness ==
    /\ FailedOverRegistered
    /\ ~Idle /\ slot = Done
    /\ \E e \in DOMAIN emitted : emitted[e].gen = activeShortcuts[lastCall.arg.id]
    /\ completions = <<>>

\* ----------------------------------------------- claims on preventDefault

\* the registrations whose stream emitted on the event being delivered
EmittedSoFar == {emitted[k].gen : k \in DOMAIN emitted}

\* C37: a rule registered with preventDefault suppresses the default action of
\* an event only if the rule emits for that event: an event rejected by the
\* context gate, the matcher or the priority filter is never marked
\* default-prevented by that rule, and a sequence rule marks only the event that
\* matched its last token, never the earlier events of the sequence.
C37_PreventDefaultOnlyOnEmission ==
    /\ ev.preventedBy \subseteq EmittedSoFar
    /\ \A j \in DOMAIN log : log[j].event.preventedBy \subseteq log[j].emits
    /\ \A e \in DOMAIN emitted :
            \A k \in 1..(Len(emitted[e].events) - 1) :
                emitted[e].gen \notin emitted[e].events[k].preventedBy

\* The global sequence [G,I] with preventDefault emitted on the I that followed
\* G and marked it, and did not mark the G.
C37_Witness ==
    /\ regs[1].type = "sequence"
    /\ Len(log) = 2
    /\ log[1].event.preventedBy = {}
    /\ log[2].event.preventedBy = {1}

\* In the active context the suppressed global combination left Ctrl+G unmarked
\* while the rule "scoped" that emitted marked it.
C37_WitnessSuppressed ==
    /\ regs[1].type = "combination"
    /\ Len(log) = 2
    /\ ShortcutMatchesEvent(regs[1], log[2].event)
    /\ log[2].registry["scoped"] # 0
    /\ log[2].event.preventedBy = {log[2].registry["scoped"]}

\* ------------------------------------- claims on the listeners left behind

\* the ids registered with a rule on document and event type `type`
RegisteredOn(type) ==
    {id \in Ids : activeShortcuts[id] # 0 /\ regs[activeShortcuts[id]].event = type}

\* the listeners on `type` are as the claim says: none while no rule is
\* registered on it, otherwise one if a stream on it is subscribed to
ListenersFollowRegistry(type) ==
    IF RegisteredOn(type) = {}
    THEN listeners[type] = 0
    ELSE listeners[type] = IF RefCount(type, subs) > 0 THEN 1 ELSE 0

\* C38: once every rule registered on a (target, event type) pair has been
\* removed or the manager destroyed, no underlying event listener remains
\* attached for that pair, and a later registration and subscription on the
\* pair attaches exactly one listener again.
C38_NoListenerWithoutRules == \A type \in EventTypes : ListenersFollowRegistry(type)

\* what does hold: the same while every subscription was made before its rule
\* was removed and before the manager was destroyed
NoListenerWithoutRulesAndLateSubscribers ==
    (\A k \in DOMAIN subs : subs[k].armed /\ subs[k].hasCtx)
        => \A type \in EventTypes : ListenersFollowRegistry(type)

\* ------------ SpecScoped: components that use useScopedHotkeysContext

\* Bound of SpecScoped: the setContext calls the provider's effect makes on the
\* manager.
MaxSyncs == 4

\* The arguments the components pass to useScopedHotkeysContext.
ScopedContextMenu == {"editor", "modal", NULL, UNDEFINED}

\* useHotkeysContextAPI.setContext(contextName): the updater queued on the
\* provider's contextStack
PushContext(prevStack, contextName) == Append(prevStack, contextName)

\* useHotkeysContextAPI.setContext(undefined): the updater queued on the
\* provider's contextStack
PopContext(prevStack) ==
    IF Len(prevStack) > 1 THEN Front(prevStack) ELSE prevStack

\* <HotkeysProvider> mounted with the default initialContext and its manager
\* created; no component uses useScopedHotkeysContext yet
InitScoped ==
    /\ initialContext = NULL
    /\ contextStack = <<initialContext>>
    /\ overrideContext = NO_OVERRIDE
    /\ restoreFns = <<>>
    /\ overrideSetBy = 0
    /\ lastCall = NoCall
    /\ prevCall = NoCall
    /\ regs = <<>>
    /\ activeShortcuts = [id \in Ids |-> 0]
    /\ terminated = {}
    /\ stackStopped = FALSE
    /\ destroyedRules = {}
    /\ subs = <<>>
    /\ now = 0
    /\ ev = NoEvent
    /\ slot = Done
    /\ emitted = <<>>
    /\ handlerActive = FALSE
    /\ reentered = FALSE
    /\ observers = <<>>
    /\ log = <<>>
    /\ failed = {}
    /\ completions = <<>>
    /\ overwritten = {}
    /\ subscribed = <<>>
    /\ listeners = [type \in EventTypes |-> 0]
    /\ providerContextStack = <<initialContext>>
    /\ scopedContext = [c \in Components |-> UNMOUNTED]

\* The render that follows a change of the provider's state: contextStack is
\* newStack, the components are as in mounted, and the effect of
\* useHotkeysContextAPI (in every mounted component that uses it) brings the
\* manager to the top of the stack
Rendered(newStack, mounted) ==
    /\ providerContextStack' = newStack
    /\ scopedContext' = mounted
    /\ IF /\ \E c \in Components : mounted[c] # UNMOUNTED
          /\ GetActiveContext # StackCtx(newStack)
       THEN SetContext(StackCtx(newStack))
       ELSE UNCHANGED <<ctxState, subs>>
    /\ UNCHANGED <<histVars, regVars, now, ev, slot, emitted, handlerActive, reentered,
                   log, failed>>

\* a component mounts: its effect runs setContext(scopedContext) unless the
\* argument is undefined
Mount ==
    \E c \in Components, context \in ScopedContextMenu :
        /\ scopedContext[c] = UNMOUNTED
        /\ Len(restoreFns) < MaxSyncs
        /\ Rendered(IF context # UNDEFINED
                    THEN PushContext(providerContextStack, context)
                    ELSE providerContextStack,
                    [scopedContext EXCEPT ![c] = context])

\* the effect's cleanup: setContext(undefined), if the effect had set a context
CleanedUp(c) ==
    IF scopedContext[c] # UNDEFINED
    THEN PopContext(providerContextStack)
    ELSE providerContextStack

\* a component unmounts: the cleanup of its effect runs
Unmount ==
    \E c \in Components :
        /\ scopedContext[c] # UNMOUNTED
        /\ Len(restoreFns) < MaxSyncs
        /\ Rendered(CleanedUp(c), [scopedContext EXCEPT ![c] = UNMOUNTED])

\* a component is rendered with another argument: the cleanup of its effect runs,
\* then the effect again
ChangeScopedContext ==
    \E c \in Components, context \in ScopedContextMenu :
        /\ scopedContext[c] \notin {UNMOUNTED, context}
        /\ Len(restoreFns) < MaxSyncs
        /\ Rendered(IF context # UNDEFINED
                    THEN PushContext(CleanedUp(c), context)
                    ELSE CleanedUp(c),
                    [scopedContext EXCEPT ![c] = context])

NextScoped ==
    \/ Mount
    \/ Unmount
    \/ ChangeScopedContext

SpecScoped == InitScoped /\ [][NextScoped]_vars

\* ------------------------------------ claims on the provider's context stack

\* the elements of the provider's stack above the base that are `context`
Pushed(context) ==
    {k \in 2..Len(providerContextStack) : providerContextStack[k] = context}

\* the mounted components whose effect set `context`
Scoping(context) == {c \in Components : scopedContext[c] = context}

\* C39: when a component using useScopedHotkeysContext unmounts (or its scoped
\* context changes), the context removed from the provider's context stack is
\* the one that this component instance pushed, so after any order of mounts and
\* unmounts the stack consists of the initial context followed by the contexts of
\* exactly the still-mounted scoped components.
C39_StackHoldsMountedContexts ==
    /\ providerContextStack[1] = initialContext
    /\ \A context \in ScopedContextMenu \ {UNDEFINED} :
            Cardinality(Pushed(context)) = Cardinality(Scoping(context))

\* what does hold: the stack has one element above the base for each mounted
\* component whose effect set a context
StackHasOneElementPerScopedComponent ==
    /\ providerContextStack[1] = initialContext
    /\ Len(providerContextStack) - 1 =
            Cardinality({c \in Components : scopedContext[c] \notin {UNMOUNTED, UNDEFINED}})

\* ------------------------------------------ claims on the timeout's boundary

\* the event being delivered reaches a rule with a timeout that has a prefix in
\* progress, and is the key of the next expected token
NextTokenArrives ==
    /\ Deliver
    /\ Timed(subs[slot.sub].gen)
    /\ subs[slot.sub].scan.emitState # "Emit"
    /\ Len(subs[slot.sub].scan.matchedEvents) > 0
    /\ ev.key = Pressed(regs[subs[slot.sub].gen].sequence[
                            Len(subs[slot.sub].scan.matchedEvents) + 1])

\* C40: for a sequence rule with timeout T, an event arriving exactly T after the
\* previous matched event still extends the matched prefix; only an elapsed time
\* strictly greater than T resets progress.
C40_TimeoutIsExclusive ==
    [][NextTokenArrives =>
        ( subs'[slot.sub].scan.matchedEvents = Append(subs[slot.sub].scan.matchedEvents, ev)
          <=> now - subs[slot.sub].scan.lastEventTime
                    <= regs[subs[slot.sub].gen].sequenceTimeoutMs )]_vars

\* The rule [A,B] with timeout 1: a at 0, b at 1, exactly the timeout later; the
\* rule emitted on b.
C40_Witness ==
    /\ regs[2].sequence = <<"A", "B">>
    /\ LogKeys = <<"a", "b">>
    /\ [i \in DOMAIN log |-> log[i].time] = <<0, SeqTimeout>>
    /\ 2 \in log[2].emits

====
